---- MODULE Spec2Model ----
(***************************************************************************)
(* State-machine model of the kite-go-library data engine                  *)
(* (src/engine/engine.go): the engine start-up (Write / Serve), the        *)
(* subscription rotation task started on every connect event, and the      *)
(* binary-message consumer (packet decoder).                               *)
(***************************************************************************)
EXTENDS Integers, Sequences, FiniteSets, TLC

VARIABLES
    envTimeout,            \* os.Getenv("TA_FEED_TIMEOUT"), a character sequence
    envCount,              \* os.Getenv("TA_FEED_INSTRUMENT_COUNT")
    writePc,               \* position of engine.Write: "start", "serve", "wgWait"
    connOpen,              \* the websocket client exists and ticker.Serve was started
    rotationInterval,      \* Serve's local, parsed from envTimeout
    instrumentsPerRequest, \* Serve's local, parsed from envCount
    cancelled,             \* (*ctx).Done() is closed
    crashed,               \* a goroutine panicked: the process is gone
    now,                   \* the wall clock, an index into Times
    isSubscribed,          \* the flag shared by all rotation tasks of the connection
    pc,                    \* per rotation task: its position
    start,                 \* per rotation task: the for-loop variable
    nowTimeValue,          \* per rotation task: the minute of day sampled per pass
    subscribed,            \* tokens passed to SubscribeFull and not yet to Unsubscribe
    lastControl,           \* the control message of the latest rotation phase, and its result
    cycleSubscribed,       \* per rotation task: tokens passed to SubscribeFull this pass
    batchNo,               \* per rotation task: batch steps begun, modulo the batch count
    hourQuery,             \* trading-hours check: the (hour, minute, token) asked
    hourActive,            \* trading-hours check: the answer of withinTradingTime
    binMessage,            \* binary consumer: the message last taken from BinaryTickerChan
    binBuilt,              \* binary consumer: per packet of it, the header values and the tick built
    binProduced,           \* binary consumer: the ticks that were enriched and marshalled
    binPanic,              \* binary consumer: the panic that ended it, or "none"
    binAppendErr,          \* appendToFile returned an error for the last message
    binHandled,            \* binary consumer: messages taken so far
    inbound,               \* the messages the transport may deliver in this run
    today,                 \* the calendar date, an index into Dates
    files,                 \* the ./binary directory: file name -> bytes
    appended,              \* per date: the messages whose append to the tick log succeeded
    readPc,                \* engine.Read: "idle", "frames", "drained", "exited"
    readDate,              \* engine.Read: its dateStr
    tokenMap,              \* engine.Read: the result of readMap: its tokens, its error
    readB,                 \* engine.Read: the bytes b still to be read, and ReadFile's error
    readFrames,            \* engine.Read: per frame cut out, what decompress returned
    readTicks,             \* engine.Read: the ticks its loop received from TickerChan
    readPanic,             \* engine.Read: the panic that ended it, or "none"
    readAppended,          \* engine.Read: the appends of readDate made before it read the log
    TickSymbolMap,         \* k.TickSymbolMap: symbol key -> the fields of a KiteTicker
    TickSymbolMapMutex,    \* k.TickSymbolMapMutex: its writer, its readers
    cachePc,               \* ticker consumer: "recv", "lock", "store"
    cacheTicker,           \* ticker consumer: the ticker taken from TickerChan
    cacheTodo,             \* ticker consumer: the field stores still to do under the lock
    cacheWrites,           \* tickers taken from TickerChan so far
    getPc,                 \* per caller of getQuoteFromWebSocket: its position
    getKey,                \* per caller: the key under which it found the ticker
    getTicker,             \* per caller: its copy of the ticker
    getCalls,              \* calls of getQuoteFromWebSocket so far
    cacheArrived,          \* the tickers taken from TickerChan, in arrival order
    getReturned,           \* the highest write a get has returned so far
    waitPc,                \* addToBatchAndWait: where its one caller is
    waitSymbol,            \* the trading symbol it was called with
    waitElapsed,           \* time.Since(startTime), in milliseconds
    waitSubscribed,        \* the tokens it passed to SubscribeFull
    waitSeen,              \* its last look at the cache met an entry of the key
    ivPc,                  \* CalculateOptionAnalytics: where its caller is
    ivMarket,              \* marketPrice
    ivTable,               \* what blackScholes and blackScholesVega give for the input
    ivSigma,               \* sigma
    ivNaN,                 \* sigma is NaN
    ivI,                   \* i, the iterations done
    ivResult,              \* what CalculateImpliedVolatility returned
    ivOutput,              \* what CalculateOptionAnalytics returned
    chanClosed,            \* the client has closed TickerChan and BinaryTickerChan
    binPc,                 \* binary consumer: "recv", "done"
    histPc,                \* GetHistoricalMinutelyData: where its caller is
    histResp,              \* the response it got: the outcome and the candle rows
    histI,                 \* the row of the outer loop, from 1
    histJ,                 \* the field of the inner loop, from 1
    histCandles,           \* candles: per element, the row whose Candle it points to
    histErr                \* the error it returned

\* the environment and what Serve reads from it
cfgVars == <<envTimeout, envCount, rotationInterval, instrumentsPerRequest>>

\* the rotation tasks
rotVars == <<isSubscribed, pc, start, nowTimeValue, subscribed, lastControl,
             cycleSubscribed, batchNo>>

\* the engine: start-up, shutdown, clock and rotation
engineVars == <<cfgVars, writePc, connOpen, cancelled, crashed, now, rotVars>>

\* the trading-hours check on its own
hourVars == <<hourQuery, hourActive>>

\* the binary-message consumer and the tick log
binVars == <<binMessage, binBuilt, binProduced, binPanic, binAppendErr,
            binHandled>>

\* the calendar, the feed of the run and the record of the appends
dayVars == <<inbound, today, appended>>

\* engine.Read
readVars == <<readPc, readDate, tokenMap, readB, readFrames, readTicks,
              readPanic, readAppended>>

\* the tick cache, its writer and the callers that read it
cacheVars == <<TickSymbolMap, TickSymbolMapMutex, cachePc, cacheTicker,
               cacheTodo, cacheWrites, getPc, getKey, getTicker, getCalls,
               cacheArrived, getReturned>>

\* addToBatchAndWait
waitVars == <<waitPc, waitSymbol, waitElapsed, waitSubscribed, waitSeen>>

\* the option analytics
ivVars == <<ivPc, ivMarket, ivTable, ivSigma, ivNaN, ivI, ivResult, ivOutput>>

\* the end of the two consumers
shutVars == <<chanClosed, binPc>>

\* the historical candles
histVars == <<histPc, histResp, histI, histJ, histCandles, histErr>>

\* the parts of the program that are checked on their own
sideVars == <<waitVars, ivVars, shutVars, histVars>>

\* what neither the engine's start-up nor its rotation touches
restVars == <<hourVars, binVars, dayVars, readVars, cacheVars, sideVars>>

\* everything the rotation and the shutdown leave alone
nonEngineVars == <<restVars, files>>

vars == <<engineVars, nonEngineVars>>

-----------------------------------------------------------------------------
(* Bounds of the model *)

\* connect events delivered on t.ConnectChan
MaxConnects == 1

\* messages delivered on t.BinaryTickerChan
MaxMessages == 2

Tasks == 1..MaxConnects

-----------------------------------------------------------------------------
(* The instrument directory, kite.BrokerInstrumentTokens, in the order the *)
(* range statements of Serve iterate it.                                   *)

BrokerInstrumentTokens == <<
    [Key |-> "NSE:A", Token |-> 11, Exchange |-> "NSE", Name |-> "A",
     Segment |-> "NSE", LotSize |-> 1],
    [Key |-> "MCX:B", Token |-> 12, Exchange |-> "MCX", Name |-> "B",
     Segment |-> "MCX-FUT", LotSize |-> 100],
    [Key |-> "BSE:A", Token |-> 19, Exchange |-> "BSE", Name |-> "A",
     Segment |-> "BSE", LotSize |-> 1],
    [Key |-> "NFO:C", Token |-> 13, Exchange |-> "NFO", Name |-> "C",
     Segment |-> "NFO-FUT", LotSize |-> 50],
    [Key |-> "NFO:D", Token |-> 14, Exchange |-> "NFO", Name |-> "D",
     Segment |-> "NFO-OPT", LotSize |-> 25],
    [Key |-> "MCX:E", Token |-> 15, Exchange |-> "MCX", Name |-> "E",
     Segment |-> "MCX-FUT", LotSize |-> 10] >>

\* engine.go:245 the instruments the engine rotates through
InUniverse(data) ==
    \/ data.Exchange = "NSE"
    \/ data.Exchange = "NFO"
    \/ data.Exchange = "NFO-OPT"
    \/ data.Name = "SENSEX"
    \/ data.Name = "BANKEX"
    \/ data.Segment = "MCX-FUT"

RECURSIVE TokensOf(_)
TokensOf(seq) ==
    IF seq = <<>> THEN <<>>
    ELSE IF InUniverse(Head(seq))
         THEN <<Head(seq).Token>> \o TokensOf(Tail(seq))
         ELSE TokensOf(Tail(seq))

\* engine.go:239-255
allTokens == TokensOf(BrokerInstrumentTokens)

mcxTokens ==
    {BrokerInstrumentTokens[i].Token : i \in
        {j \in 1..Len(BrokerInstrumentTokens) :
            /\ InUniverse(BrokerInstrumentTokens[j])
            /\ BrokerInstrumentTokens[j].Segment = "MCX-FUT"}}

equityTokens ==
    {BrokerInstrumentTokens[i].Token : i \in
        {j \in 1..Len(BrokerInstrumentTokens) :
            /\ InUniverse(BrokerInstrumentTokens[j])
            /\ BrokerInstrumentTokens[j].Segment # "MCX-FUT"}}

-----------------------------------------------------------------------------
(* The wall clock: the (hour, minute) pairs time.Now() goes through.       *)

Times == << <<8, 59>>, <<9, 0>>, <<9, 15>>, <<15, 31>>, <<23, 31>> >>

Hour(i) == Times[i][1]
Minute(i) == Times[i][2]

\* engine.go:290 / 399
NowTimeValue(i) == Hour(i) * 60 + Minute(i)

\* a plausible slip: the closing minute left out of the equity session
withinEquityTradingTimeStrict(v) == 9 * 60 + 15 <= v /\ v < 15 * 60 + 30

\* engine.go:291 / 400
withinEquityTradingTime(v) == 9 * 60 + 15 <= v /\ v <= 15 * 60 + 30

\* a plausible slip: the commodity session opened with the equity session
withinMCXTradingTimeFromEquityOpen(v) == 9 * 60 + 15 <= v /\ v <= 23 * 60 + 30

\* engine.go:292 / 401
withinMCXTradingTime(v) == 9 * 60 <= v /\ v <= 23 * 60 + 30

\* a plausible slip: every token judged by the equity session
withinTradingTimeEquityOnly(token, v) == withinEquityTradingTime(v)

\* engine.go:301-306
withinTradingTime(token, v) ==
    IF token \in mcxTokens THEN withinMCXTradingTime(v)
    ELSE withinEquityTradingTime(v)

-----------------------------------------------------------------------------
(* strconv.ParseFloat on the inputs of the model: an optional sign and     *)
(* decimal digits parse to that number, anything else is a syntax error    *)
(* and the value 0.                                                        *)

Digits == <<"0", "1", "2", "3", "4", "5", "6", "7", "8", "9">>

IsDigit(c) == \E d \in 1..10 : Digits[d] = c

DigitVal(c) == (CHOOSE d \in 1..10 : Digits[d] = c) - 1

RECURSIVE ParseDigits(_, _)
ParseDigits(s, acc) ==
    IF s = <<>> THEN acc
    ELSE ParseDigits(Tail(s), acc * 10 + DigitVal(Head(s)))

ParseFloat(s) ==
    LET neg  == s # <<>> /\ Head(s) = "-"
        body == IF neg THEN Tail(s) ELSE s
    IN  IF body = <<>> \/ \E i \in 1..Len(body) : ~IsDigit(body[i])
        THEN [val |-> 0, err |-> TRUE]
        ELSE [val |-> IF neg THEN 0 - ParseDigits(body, 0)
                      ELSE ParseDigits(body, 0),
              err |-> FALSE]

\* the values the two environment variables take in the model
EnvTimeoutValues == {<<>>, <<"2">>}
EnvCountValues ==
    {<<>>, <<"x">>, <<"-", "1">>, <<"0">>, <<"2">>, <<"3">>}

-----------------------------------------------------------------------------
(* Go slices of allTokens                                                  *)

\* s[a:b] panics unless 0 <= a <= b <= cap(s)
SliceOK(a, b, cap) == 0 <= a /\ a <= b /\ b <= cap

\* s[a:b], 0-based half-open, of a sequence
Slice(s, a, b) == SubSeq(s, a + 1, b)

Range(s) == {s[i] : i \in 1..Len(s)}

-----------------------------------------------------------------------------
(* The ./binary directory and the storage frame                            *)

\* calendar dates the model runs through
MaxDays == 2

Dates == 1..MaxDays

\* engine.go:230: "./binary/map_" + date + ".proto.zstd"
MapFile(d) == <<"./binary/map_", d, ".proto.zstd">>

\* engine.go:405: the file the binary consumer appends to
TickLogFile(d) == <<"./binary/market_data_equity_mcx_", d, ".bin.zstd">>

\* engine.go:67: the file Read reads
ReadLogFile(d) == <<"./binary/market_data_", d, ".bin.zstd">>

\* os.Create and one Write: the file holds exactly these bytes
WriteFile(fs, name, bytes) ==
    [n \in (DOMAIN fs) \cup {name} |-> IF n = name THEN bytes ELSE fs[n]]

\* os.OpenFile(O_APPEND|O_CREATE) and one Write
AppendFile(fs, name, bytes) ==
    [n \in (DOMAIN fs) \cup {name} |->
        IF n = name
        THEN (IF name \in DOMAIN fs THEN fs[name] ELSE <<>>) \o bytes
        ELSE fs[n]]

\* binary.BigEndian.PutUint64 of a length below 2^16
PutUint64(n) == <<0, 0, 0, 0, 0, 0, n \div 256, n % 256>>

\* binary.BigEndian.Uint64 of eight bytes whose upper six are zero
Uint64(b) == b[7] * 256 + b[8]

ZstdMagic == <<40, 181, 47, 253>>

\* the content checksum of a zstd frame
RECURSIVE WeightedSum(_, _, _)
WeightedSum(bytes, lo, hi) ==
    IF lo > hi THEN 0
    ELSE IF lo = hi THEN bytes[lo] * ((lo % 7) + 1)
    ELSE LET mid == (lo + hi) \div 2
         IN  WeightedSum(bytes, lo, mid) + WeightedSum(bytes, mid + 1, hi)

Checksum(bytes) == (7 + WeightedSum(bytes, 1, Len(bytes))) % 251

\* engine.go:120-140: the zstd frame of the input: the frame magic, the
\* content size, the content, the content checksum
compress(input) == ZstdMagic \o <<Len(input)>> \o input \o <<Checksum(input)>>

\* engine.go:142-157: the content of a zstd frame; an input that is not one
\* whole frame with the right checksum is an error
decompress(input) ==
    IF /\ Len(input) >= 6
       /\ SubSeq(input, 1, 4) = ZstdMagic
       /\ input[5] = Len(input) - 6
       /\ input[Len(input)] = Checksum(SubSeq(input, 6, Len(input) - 1))
    THEN [val |-> SubSeq(input, 6, Len(input) - 1), err |-> FALSE]
    ELSE [val |-> <<>>, err |-> TRUE]

\* a plausible slip: the prefix gives the length before compression
FrameRawLength(data) == PutUint64(Len(data)) \o compress(data)

\* engine.go:159-180 / 182-199: the length prefix and the compressed bytes
Frame(data) == PutUint64(Len(compress(data))) \o compress(data)

\* engine.go:205-225: proto.Marshal of the instrument map, one byte (the
\* token) per instrument
MarshalMap ==
    [i \in 1..Len(BrokerInstrumentTokens) |-> BrokerInstrumentTokens[i].Token]

\* engine.go:47-55: proto.Unmarshal of a map and the tokens it holds
UnmarshalMap(packet) == {packet[i] : i \in 1..Len(packet)}

-----------------------------------------------------------------------------
(* Initial state: the process before engine.Write is called               *)

\* no control message sent
NoControl == [kind |-> "none", tokens |-> <<>>, err |-> FALSE]

InitSched ==
    /\ envTimeout \in EnvTimeoutValues
    /\ envCount \in EnvCountValues
    /\ writePc = "start"
    /\ connOpen = FALSE
    /\ rotationInterval = 0
    /\ instrumentsPerRequest = 0
    /\ cancelled = FALSE
    /\ crashed = FALSE
    /\ now \in 1..Len(Times)
    /\ isSubscribed = TRUE
    /\ pc = [t \in Tasks |-> "none"]
    /\ start = [t \in Tasks |-> 0]
    /\ nowTimeValue = [t \in Tasks |-> 0]
    /\ subscribed = {}
    /\ lastControl = NoControl
    /\ cycleSubscribed = [t \in Tasks |-> {}]
    /\ batchNo = [t \in Tasks |-> 0]

NoQuery == [hour |-> 0, minute |-> 0, token |-> 0]

InitHours ==
    /\ hourQuery = NoQuery
    /\ hourActive = FALSE

\* the engine not yet started, under one valid configuration
InitEngineIdle ==
    /\ InitSched
    /\ envTimeout = <<"2">>
    /\ envCount = <<"2">>
    /\ now = 1

NoMessage == [arr |-> <<>>, len |-> 0]

InitBinary ==
    /\ binMessage = NoMessage
    /\ binBuilt = <<>>
    /\ binProduced = <<>>
    /\ binPanic = "none"
    /\ binAppendErr = FALSE
    /\ binHandled = 0

\* an empty ./binary directory on the first date, nothing appended yet
InitStore ==
    /\ today = 1
    /\ files = <<>>
    /\ appended = [d \in Dates |-> <<>>]

\* engine.Read not called
InitReader ==
    /\ readPc = "idle"
    /\ readDate = 0
    /\ tokenMap = [tokens |-> {}, err |-> FALSE]
    /\ readB = [b |-> [arr |-> <<>>, len |-> 0], err |-> FALSE]
    /\ readFrames = <<>>
    /\ readTicks = <<>>
    /\ readPanic = "none"
    /\ readAppended = <<>>

NoTicker == [LastPrice |-> 0, Depth |-> 0]

\* callers of the quote functions that may run at the same time
Callers == {1, 2}

\* engine.go:265: the empty cache, its lock free, nobody reading
InitCache ==
    /\ TickSymbolMap = <<>>
    /\ TickSymbolMapMutex = [writer |-> FALSE, readers |-> {}]
    /\ cachePc = "recv"
    /\ cacheTicker = [TradingSymbol |-> "", Token |-> 0, LastPrice |-> 0,
                      Depth |-> 0]
    /\ cacheTodo = <<>>
    /\ cacheWrites = 0
    /\ getPc = [c \in Callers |-> "idle"]
    /\ getKey = [c \in Callers |-> ""]
    /\ getTicker = [c \in Callers |-> NoTicker]
    /\ getCalls = 0
    /\ cacheArrived = <<>>
    /\ getReturned = 0

\* nobody waits for a symbol
InitWait ==
    /\ waitPc = "idle"
    /\ waitSymbol = ""
    /\ waitElapsed = 0
    /\ waitSubscribed = {}
    /\ waitSeen = FALSE

\* nobody asks for option analytics
InitIV ==
    /\ ivPc = "idle"
    /\ ivMarket = 0
    /\ ivTable = <<>>
    /\ ivSigma = 0
    /\ ivNaN = FALSE
    /\ ivI = 0
    /\ ivResult = [sigma |-> 0, err |-> "none"]
    /\ ivOutput = [ImpliedVolatility |-> 0, Greeks |-> "zero", err |-> "none"]

\* engine.go:359, 397: both consumers are in their range loops, the
\* channels are open
InitShut ==
    /\ chanClosed = FALSE
    /\ binPc = "recv"

\* no response
NoResponse == [outcome |-> "none", rows |-> <<>>]

\* nobody asks for historical candles
InitHist ==
    /\ histPc = "idle"
    /\ histResp = NoResponse
    /\ histI = 0
    /\ histJ = 0
    /\ histCandles = <<>>
    /\ histErr = "none"

\* the parts that are checked on their own, at rest
InitSide ==
    /\ InitWait
    /\ InitIV
    /\ InitShut
    /\ InitHist

\* a transport that delivers no message
InitQuiet ==
    /\ inbound = {}
    /\ InitStore
    /\ InitReader
    /\ InitCache
    /\ InitSide

Init == InitSched /\ InitHours /\ InitBinary /\ InitQuiet

-----------------------------------------------------------------------------
(* engine.Write and engine.Serve                                           *)

\* engine.go:26-28, 201-526: Write calls Serve, which builds the token
\* universe, saves the instrument map of the day (saveFile, 182-199),
\* creates the websocket client, parses the two settings (an
\* error is logged and the value stays 0), starts its goroutines and
\* ticker.Serve, and blocks on (*ctx).Done().
ServeStart ==
    /\ writePc = "start"
    /\ ~crashed
    /\ writePc' = "serve"
    /\ connOpen' = TRUE
    /\ rotationInterval' = ParseFloat(envTimeout).val
    /\ instrumentsPerRequest' = ParseFloat(envCount).val
    /\ files' = WriteFile(files, MapFile(today), Frame(MarshalMap))
    /\ UNCHANGED <<envTimeout, envCount, cancelled, crashed, now, rotVars, restVars>>

\* engine.go:526-529, 29-31: Serve returns once the context is done; Write
\* then adds one to a fresh WaitGroup and waits on it.
ServeReturn ==
    /\ writePc = "serve"
    /\ ~crashed
    /\ cancelled
    /\ writePc' = "wgWait"
    /\ UNCHANGED <<cfgVars, connOpen, cancelled, crashed, now, rotVars, nonEngineVars>>

\* the context handed to Write is cancelled
Cancel ==
    /\ ~cancelled
    /\ ~crashed
    /\ cancelled' = TRUE
    /\ UNCHANGED <<cfgVars, writePc, connOpen, crashed, now, rotVars, nonEngineVars>>

\* the wall clock moves on
Tick ==
    /\ now < Len(Times)
    /\ ~crashed
    /\ now' = now + 1
    /\ UNCHANGED <<cfgVars, writePc, connOpen, cancelled, crashed, rotVars, nonEngineVars>>

-----------------------------------------------------------------------------
(* The rotation task, engine.go:277-356                                    *)

\* engine.go:279-283: a connect event starts one more rotation task
Connect ==
    /\ writePc = "serve"
    /\ connOpen
    /\ ~crashed
    /\ \E t \in DOMAIN pc :
        /\ pc[t] = "none"
        /\ \A u \in DOMAIN pc : u < t => pc[u] # "none"
        /\ pc' = [pc EXCEPT ![t] = "outer"]
    /\ UNCHANGED <<cfgVars, writePc, connOpen, cancelled, crashed, now,
                   isSubscribed, start, nowTimeValue, subscribed, lastControl,
                   cycleSubscribed, batchNo, nonEngineVars>>

\* int(instrumentsPerRequest)
BatchSize == instrumentsPerRequest

\* the number of batches of a positive batch size
NumBatches == (Len(allTokens) + BatchSize - 1) \div BatchSize

\* a plausible slip: the loop advances one token too far
NextStartSkip(s) == s + BatchSize + 1

\* engine.go:294 start += int(instrumentsPerRequest)
NextStart(s) == s + BatchSize

\* engine.go:318-321
EndOf(s) ==
    IF s + BatchSize > Len(allTokens) THEN Len(allTokens) ELSE s + BatchSize

\* engine.go:334-339
RECURSIVE ActiveFrom(_, _, _)
ActiveFrom(i, end, v) ==
    IF i >= end THEN <<>>
    ELSE IF withinTradingTime(allTokens[i + 1], v)
         THEN <<allTokens[i + 1]>> \o ActiveFrom(i + 1, end, v)
         ELSE ActiveFrom(i + 1, end, v)

\* a plausible slip: the chunk filtered by the clock of the batch step
activeBatchTokensFresh(t) ==
    ActiveFrom(start[t], EndOf(start[t]), NowTimeValue(now))

\* engine.go:334-339, with the flags of lines 290-292
activeBatchTokens(t) == ActiveFrom(start[t], EndOf(start[t]), nowTimeValue[t])

\* engine.go:284-294: the outer select, the sample of the clock, start := 0
RotOuter(t) ==
    /\ pc[t] = "outer"
    /\ ~crashed
    /\ IF cancelled
       THEN /\ pc' = [pc EXCEPT ![t] = "done"]
            /\ UNCHANGED <<start, nowTimeValue, cycleSubscribed>>
       ELSE /\ pc' = [pc EXCEPT ![t] = "inner"]
            /\ nowTimeValue' = [nowTimeValue EXCEPT ![t] = NowTimeValue(now)]
            /\ start' = [start EXCEPT ![t] = 0]
            /\ cycleSubscribed' = [cycleSubscribed EXCEPT ![t] = {}]
    /\ UNCHANGED <<cfgVars, writePc, connOpen, cancelled, crashed, now,
                   isSubscribed, subscribed, lastControl, batchNo,
                   nonEngineVars>>

\* engine.go:294-298: the loop condition and the inner select
RotInner(t) ==
    /\ pc[t] = "inner"
    /\ ~crashed
    /\ pc' = [pc EXCEPT ![t] =
                IF start[t] < Len(allTokens)
                THEN (IF cancelled THEN "done" ELSE "unsub")
                ELSE "outer"]
    /\ batchNo' = [batchNo EXCEPT ![t] =
                IF start[t] < Len(allTokens) /\ ~cancelled /\ BatchSize >= 1
                THEN (@ + 1) % NumBatches ELSE @]
    /\ UNCHANGED <<cfgVars, writePc, connOpen, cancelled, crashed, now,
                   isSubscribed, start, nowTimeValue, subscribed, lastControl,
                   cycleSubscribed, nonEngineVars>>

\* a plausible slip: the rotation task returns when a control call fails
ControlErrorHaltsOnError(err) == err

\* engine.go:327, 343: the results of t.Unsubscribe and t.SubscribeFull
\* are not looked at
ControlErrorHalts(err) == FALSE

\* engine.go:323-331: unsubscribe the previous chunk; the call may fail
RotUnsubscribe(t) ==
    /\ pc[t] = "unsub"
    /\ ~crashed
    /\ LET prevStart == start[t] - BatchSize
           prevEnd   == start[t]
       IN  IF prevStart >= 0
           THEN IF isSubscribed
                THEN IF SliceOK(prevStart, prevEnd, Len(allTokens))
                     THEN \E err \in BOOLEAN :
                          /\ subscribed' = subscribed \
                                Range(Slice(allTokens, prevStart, prevEnd))
                          /\ lastControl' =
                                [kind |-> "unsubscribe",
                                 tokens |-> Slice(allTokens, prevStart, prevEnd),
                                 err |-> err]
                          /\ isSubscribed' = FALSE
                          /\ pc' = [pc EXCEPT ![t] =
                                IF ControlErrorHalts(err) THEN "done" ELSE "sub"]
                          /\ UNCHANGED crashed
                     ELSE /\ crashed' = TRUE
                          /\ UNCHANGED <<subscribed, lastControl,
                                         isSubscribed, pc>>
                ELSE /\ isSubscribed' = FALSE
                     /\ lastControl' = NoControl
                     /\ pc' = [pc EXCEPT ![t] = "sub"]
                     /\ UNCHANGED <<subscribed, crashed>>
           ELSE /\ pc' = [pc EXCEPT ![t] = "sub"]
                /\ lastControl' = NoControl
                /\ UNCHANGED <<subscribed, isSubscribed, crashed>>
    /\ UNCHANGED <<cfgVars, writePc, connOpen, cancelled, now, start,
                   nowTimeValue, cycleSubscribed, batchNo, nonEngineVars>>

\* engine.go:333-347: filter the chunk and subscribe its active tokens;
\* the call may fail
RotSubscribe(t) ==
    /\ pc[t] = "sub"
    /\ ~crashed
    /\ LET active == activeBatchTokens(t)
       IN  IF Len(active) > 0
           THEN \E err \in BOOLEAN :
                /\ subscribed' = subscribed \cup Range(active)
                /\ lastControl' = [kind |-> "subscribe", tokens |-> active,
                                   err |-> err]
                /\ cycleSubscribed' =
                      [cycleSubscribed EXCEPT ![t] = @ \cup Range(active)]
                /\ isSubscribed' = TRUE
                /\ pc' = [pc EXCEPT ![t] =
                      IF ControlErrorHalts(err) THEN "done" ELSE "wait"]
           ELSE /\ isSubscribed' = FALSE
                /\ lastControl' = NoControl
                /\ pc' = [pc EXCEPT ![t] = "wait"]
                /\ UNCHANGED <<subscribed, cycleSubscribed>>
    /\ UNCHANGED <<cfgVars, writePc, connOpen, cancelled, crashed, now, start,
                   nowTimeValue, batchNo, nonEngineVars>>

\* engine.go:349, 294: the timer fires and the loop advances start
RotWait(t) ==
    /\ pc[t] = "wait"
    /\ ~crashed
    /\ start' = [start EXCEPT ![t] = NextStart(start[t])]
    /\ pc' = [pc EXCEPT ![t] = "inner"]
    /\ UNCHANGED <<cfgVars, writePc, connOpen, cancelled, crashed, now,
                   isSubscribed, nowTimeValue, subscribed, lastControl,
                   cycleSubscribed, batchNo, nonEngineVars>>

Rotate(t) ==
    \/ RotOuter(t)
    \/ RotInner(t)
    \/ RotUnsubscribe(t)
    \/ RotSubscribe(t)
    \/ RotWait(t)

-----------------------------------------------------------------------------
(* Go byte slices.  A slice is [arr, len]: arr holds the bytes from the    *)
(* slice's first element to the end of its capacity, len is its length.    *)

Cap(s) == Len(s.arr)

\* s[a:b]; the caller has checked a <= b <= cap(s)
SliceHL(s, a, b) == [arr |-> SubSeq(s.arr, a + 1, Len(s.arr)), len |-> b - a]

\* s[a:]; the caller has checked a <= len(s)
SliceFrom(s, a) == [arr |-> SubSeq(s.arr, a + 1, Len(s.arr)), len |-> s.len - a]

\* binary.BigEndian.Uint16 / Uint32 of the first bytes of a sequence
Uint16(b) == b[1] * 256 + b[2]
Uint32(b) == ((b[1] * 256 + b[2]) * 256 + b[3]) * 256 + b[4]

Min(a, b) == IF a <= b THEN a ELSE b

Max(a, b) == IF a >= b THEN a ELSE b

-----------------------------------------------------------------------------
(* The packet parsers of the kite package (kite.Packet), which the         *)
(* repository keeps outside the files at hand: a header is a run of        *)
(* 4-byte big-endian fields, a depth ladder a run of 12-byte groups        *)
(* (quantity, price, order count, padding).  An incomplete trailing field  *)
(* or group is dropped.                                                    *)

FieldWidth == 4
DepthGroupWidth == 12

RECURSIVE ParseFields(_, _)
ParseFields(bytes, n) ==
    IF n = 0 THEN <<>>
    ELSE <<Uint32(bytes)>>
         \o ParseFields(SubSeq(bytes, FieldWidth + 1, Len(bytes)), n - 1)

\* packet.ParseBinary(size)
ParseBinary(packet, size) == ParseFields(packet.arr, size \div FieldWidth)

RECURSIVE ParseGroups(_, _)
ParseGroups(bytes, n) ==
    IF n = 0 THEN <<>>
    ELSE <<Uint32(bytes), Uint32(SubSeq(bytes, 5, 8)), Uint16(SubSeq(bytes, 9, 10))>>
         \o ParseGroups(SubSeq(bytes, DepthGroupWidth + 1, Len(bytes)), n - 1)

\* packet.ParseMarketDepth()
ParseMarketDepth(packet) == ParseGroups(packet.arr, packet.len \div DepthGroupWidth)

-----------------------------------------------------------------------------
(* The binary-message consumer, engine.go:397-519                          *)

\* a plausible slip: every key holds the record of the last instrument
tokenTradingsymbolMapLast ==
    [tok \in {BrokerInstrumentTokens[i].Token :
                 i \in 1..Len(BrokerInstrumentTokens)} |->
        BrokerInstrumentTokens[Len(BrokerInstrumentTokens)]]

\* engine.go:203-223: token -> directory entry, for every instrument
tokenTradingsymbolMap ==
    [tok \in {BrokerInstrumentTokens[i].Token :
                 i \in 1..Len(BrokerInstrumentTokens)} |->
        BrokerInstrumentTokens[CHOOSE i \in 1..Len(BrokerInstrumentTokens) :
                                  BrokerInstrumentTokens[i].Token = tok]]

\* engine.go:425-430: a fresh storage.Ticker
ZeroTicker ==
    [Token |-> 0, LastPrice |-> 0, High |-> 0, Low |-> 0, Open |-> 0,
     Close |-> 0, PriceChange |-> 0, ExchangeTimestamp |-> 0,
     LastTradedQuantity |-> 0, AverageTradedPrice |-> 0, VolumeTraded |-> 0,
     TotalBuy |-> 0, TotalSell |-> 0, LastTradedTimestamp |-> 0, OI |-> 0,
     OIHigh |-> 0, OILow |-> 0, LotSize |-> 0,
     Depth |-> [Buy |-> <<>>, Sell |-> <<>>]]

\* a plausible slip: low and high exchanged in the 16-field layout
FillTickerSwapped(values) ==
    LET base == IF Len(values) >= 2
                THEN [ZeroTicker EXCEPT !.Token = values[1],
                                        !.LastPrice = values[2]]
                ELSE ZeroTicker
    IN  IF Len(values) = 16
        THEN [base EXCEPT !.LastTradedQuantity = values[3],
                          !.AverageTradedPrice = values[4],
                          !.VolumeTraded = values[5],
                          !.TotalBuy = values[6],
                          !.TotalSell = values[7],
                          !.High = values[9],
                          !.Low = values[8],
                          !.Open = values[10],
                          !.Close = values[11],
                          !.LastTradedTimestamp = values[12],
                          !.OI = values[13],
                          !.OIHigh = values[14],
                          !.OILow = values[15],
                          !.ExchangeTimestamp = values[16]]
        ELSE base

\* engine.go:431-477: the header values fill the tick by position
FillTicker(values) ==
    LET base == IF Len(values) >= 2
                THEN [ZeroTicker EXCEPT !.Token = values[1],
                                        !.LastPrice = values[2]]
                ELSE ZeroTicker
    IN  CASE Len(values) = 2 -> base
          [] Len(values) = 7 ->
                [base EXCEPT !.High = values[3],
                             !.Low = values[4],
                             !.Open = values[5],
                             !.Close = values[6],
                             !.ExchangeTimestamp = values[7]]
          [] Len(values) = 8 ->
                [base EXCEPT !.High = values[3],
                             !.Low = values[4],
                             !.Open = values[5],
                             !.Close = values[6],
                             !.PriceChange = values[7],
                             !.ExchangeTimestamp = values[8]]
          [] Len(values) = 11 ->
                [base EXCEPT !.LastTradedQuantity = values[3],
                             !.AverageTradedPrice = values[4],
                             !.VolumeTraded = values[5],
                             !.TotalBuy = values[6],
                             !.TotalSell = values[7],
                             !.High = values[8],
                             !.Low = values[9],
                             !.Open = values[10],
                             !.Close = values[11]]
          [] Len(values) = 16 ->
                [base EXCEPT !.LastTradedQuantity = values[3],
                             !.AverageTradedPrice = values[4],
                             !.VolumeTraded = values[5],
                             !.TotalBuy = values[6],
                             !.TotalSell = values[7],
                             !.High = values[8],
                             !.Low = values[9],
                             !.Open = values[10],
                             !.Close = values[11],
                             !.LastTradedTimestamp = values[12],
                             !.OI = values[13],
                             !.OIHigh = values[14],
                             !.OILow = values[15],
                             !.ExchangeTimestamp = values[16]]
          [] OTHER -> base

\* engine.go:486-502: the depth values go to the buy side until it holds
\* lobDepth orders, then to the sell side
RECURSIVE FillDepth(_, _, _)
FillDepth(values, lobDepth, depth) ==
    IF Len(values) = 0 THEN [depth |-> depth, panic |-> "none"]
    ELSE IF Len(values) < 3
    THEN [depth |-> depth, panic |-> "index out of range"]
    ELSE LET order == [Price |-> values[2], Quantity |-> values[1],
                       Orders |-> values[3]]
         IN  FillDepth(SubSeq(values, 4, Len(values)), lobDepth,
                 IF Len(depth.Buy) < lobDepth
                 THEN [depth EXCEPT !.Buy = Append(@, order)]
                 ELSE [depth EXCEPT !.Sell = Append(@, order)])

\* a plausible slip: the ladder parsed without skipping the header
WithDepthNoSkip(ticker, packet) ==
    IF packet.len > 64
    THEN LET values == ParseMarketDepth(packet)
             filled == FillDepth(values, Len(values) \div 6, ticker.Depth)
         IN  [ticker |-> [ticker EXCEPT !.Depth = filled.depth],
              panic |-> filled.panic]
    ELSE [ticker |-> ticker, panic |-> "none"]

\* a plausible slip: the buy side takes totalGroups entries
WithDepthAllBuy(ticker, packet) ==
    IF packet.len > 64
    THEN LET values == ParseMarketDepth(SliceFrom(packet, 64))
             filled == FillDepth(values, Len(values) \div 3, ticker.Depth)
         IN  [ticker |-> [ticker EXCEPT !.Depth = filled.depth],
              panic |-> filled.panic]
    ELSE [ticker |-> ticker, panic |-> "none"]

\* engine.go:479-503
WithDepth(ticker, packet) ==
    IF packet.len > 64
    THEN LET values == ParseMarketDepth(SliceFrom(packet, 64))
             filled == FillDepth(values, Len(values) \div 6, ticker.Depth)
         IN  [ticker |-> [ticker EXCEPT !.Depth = filled.depth],
              panic |-> filled.panic]
    ELSE [ticker |-> ticker, panic |-> "none"]

\* engine.go:422, 504-505: packetSize+2, a sum of uint16
PacketEnd(packetSize) == (packetSize + 2) % 65536

\* engine.go:415-515: the packet loop.  out collects, per packet, the
\* payload and header values with the tick built from them (built), the ticks that got
\* their lot size and were marshalled (produced), and the panic, if any.
RECURSIVE PacketLoop(_, _, _)
PacketLoop(message, numOfPackets, out) ==
    IF numOfPackets = 0 THEN out
    ELSE IF Cap(message) < 2
    THEN [out EXCEPT !.panic = "slice bounds out of range"]
    ELSE
      LET packetSize == Uint16(message.arr)
          high       == PacketEnd(packetSize)
      IN  IF ~(2 <= high /\ high <= Cap(message))
          THEN [out EXCEPT !.panic = "slice bounds out of range"]
          ELSE
            LET packet == SliceHL(message, 2, high)
                values == ParseBinary(packet, Min(64, packet.len))
                deep   == WithDepth(FillTicker(values), packet)
                ticker == deep.ticker
                built  == Append(out.built,
                                 [payload |-> SubSeq(packet.arr, 1, packet.len),
                                  values |-> values, ticker |-> ticker])
                rest   == IF message.len > high
                          THEN SliceFrom(message, high) ELSE message
            IN  IF deep.panic # "none"
                THEN [out EXCEPT !.built = built, !.panic = deep.panic]
                ELSE IF ticker.Token \notin DOMAIN tokenTradingsymbolMap
                THEN [out EXCEPT !.built = built,
                                 !.panic = "nil pointer dereference"]
                ELSE PacketLoop(rest, numOfPackets - 1,
                        [out EXCEPT
                            !.built = built,
                            !.produced = Append(@,
                                [ticker EXCEPT !.LotSize =
                                    tokenTradingsymbolMap[ticker.Token].LotSize])])

NoOutput == [built |-> <<>>, produced |-> <<>>, panic |-> "none"]

\* engine.go:411-516: the packet count, then the packet loop
Decode(message) ==
    IF Cap(message) < 2
    THEN [NoOutput EXCEPT !.panic = "slice bounds out of range"]
    ELSE LET numOfPackets == Uint16(message.arr)
         IN  IF numOfPackets > 0
             THEN IF message.len < 2
                  THEN [NoOutput EXCEPT !.panic = "slice bounds out of range"]
                  ELSE PacketLoop(SliceFrom(message, 2), numOfPackets, NoOutput)
             ELSE NoOutput

-----------------------------------------------------------------------------
(* The messages the transport delivers in the model                        *)

U16(n) == <<n \div 256, n % 256>>
U32(n) == <<0, 0, n \div 256, n % 256>>

\* a header of n fields: the token, then the values 101, 102, ...
RECURSIVE HeaderFrom(_, _)
HeaderFrom(i, n) ==
    IF i > n THEN <<>> ELSE U32(100 + i) \o HeaderFrom(i + 1, n)

Header(tok, n) == IF n = 0 THEN <<>> ELSE U32(tok) \o HeaderFrom(2, n)

\* a ladder of g groups: quantity 10+j, price 20+j, j orders
RECURSIVE Ladder(_, _)
Ladder(j, g) ==
    IF j > g THEN <<>>
    ELSE U32(10 + j) \o U32(20 + j) \o U16(j) \o <<0, 0>> \o Ladder(j + 1, g)

\* a packet with an honest length prefix
Pkt(payload) == U16(Len(payload)) \o payload

KnownToken == 11
OtherKnownToken == 12
UnknownToken == 99
\* the token of the instrument with the trading symbol of token 11 on
\* the other exchange
SameSymbolToken == 19

MessageBytes ==
    {   \* one well-formed packet of every variant
        U16(1) \o Pkt(Header(KnownToken, 2)),
        U16(1) \o Pkt(Header(KnownToken, 7)),
        U16(1) \o Pkt(Header(KnownToken, 8)),
        U16(1) \o Pkt(Header(KnownToken, 11)),
        U16(1) \o Pkt(Header(KnownToken, 16)),
        \* the full packet with a depth ladder of 2 and of 3 groups
        U16(1) \o Pkt(Header(KnownToken, 16) \o Ladder(1, 2)),
        U16(1) \o Pkt(Header(KnownToken, 16) \o Ladder(1, 3)),
        U16(1) \o Pkt(Header(KnownToken, 16) \o Ladder(1, 1)),
        \* two packets
        U16(2) \o Pkt(Header(KnownToken, 2)) \o Pkt(Header(OtherKnownToken, 7)),
        \* a token the directory does not know, alone and before a known one
        U16(1) \o Pkt(Header(UnknownToken, 2)),
        U16(2) \o Pkt(Header(UnknownToken, 2)) \o Pkt(Header(KnownToken, 2)),
        \* field counts outside the variants
        U16(1) \o Pkt(Header(KnownToken, 3)),
        U16(2) \o Pkt(Header(KnownToken, 3)) \o Pkt(Header(KnownToken, 2)),
        U16(1) \o Pkt(Header(KnownToken, 1)),
        U16(1) \o Pkt(<<>>),
        \* a declared count above and below the packets present
        U16(2) \o Pkt(Header(KnownToken, 2)),
        U16(1) \o Pkt(Header(KnownToken, 2)) \o Pkt(Header(OtherKnownToken, 2)),
        U16(0),
        U16(1),
        \* a declared length above the bytes present
        U16(1) \o U16(8) \o U32(KnownToken),
        U16(1) \o U16(65535) \o Header(KnownToken, 2),
        U16(1) \o U16(65534) \o Header(KnownToken, 2),
        \* a message shorter than its headers
        <<>>,
        <<0>>
    }

\* the spare capacity a message buffer may have beyond its length
SpareCapacity == {0, 4}

RECURSIVE Zeros(_)
Zeros(n) == IF n = 0 THEN <<>> ELSE <<0>> \o Zeros(n - 1)

Messages ==
    {[arr |-> b \o Zeros(spare), len |-> Len(b)] :
        b \in MessageBytes, spare \in SpareCapacity}

\* a plausible slip: a failed append ends the consumer before the decoding
AppendErrorStopsOnError(err) == err

\* engine.go:405: appendToFile is called as a statement, the error it
\* returns (engine.go:171-178) is dropped and the decoding follows
AppendErrorStops(err) == FALSE

\* engine.go:397-518: one message taken from BinaryTickerChan: the append
\* to the tick log inside the trading hours (its error is dropped), then
\* the decoding of its packets
HandleBinary ==
    /\ writePc = "serve"
    /\ binPc = "recv"
    /\ ~crashed
    /\ binHandled < MaxMessages
    /\ \E message \in inbound, writeOk \in BOOLEAN :
        LET v   == NowTimeValue(now)
            bytes == SubSeq(message.arr, 1, message.len)
            saved == (withinEquityTradingTime(v) \/ withinMCXTradingTime(v))
                     /\ writeOk
            err   == (withinEquityTradingTime(v) \/ withinMCXTradingTime(v))
                     /\ ~writeOk
            out == IF AppendErrorStops(err) THEN NoOutput ELSE Decode(message)
        IN  /\ binPc' = IF AppendErrorStops(err) THEN "done" ELSE binPc
            /\ files' = IF saved
                        THEN AppendFile(files, TickLogFile(today), Frame(bytes))
                        ELSE files
            /\ appended' = IF saved
                           THEN [appended EXCEPT ![today] = Append(@, bytes)]
                           ELSE appended
            /\ binMessage' = message
            /\ binBuilt' = out.built
            /\ binProduced' = out.produced
            /\ binPanic' = out.panic
            /\ binAppendErr' = err
            /\ crashed' = (out.panic # "none")
    /\ binHandled' = binHandled + 1
    /\ UNCHANGED <<cfgVars, writePc, connOpen, cancelled, now, rotVars,
                   hourVars, inbound, today, readVars, cacheVars, waitVars,
                   ivVars, chanClosed, histVars>>

\* the engine serving under one valid configuration, at any time of day
InitServing ==
    /\ InitSched
    /\ envTimeout = <<"2">>
    /\ envCount = <<"2">>

InitDecode ==
    /\ InitServing
    /\ InitHours
    /\ InitBinary
    /\ inbound = Messages
    /\ InitStore
    /\ InitReader
    /\ InitCache
    /\ InitSide

NextDecode ==
    \/ ServeStart
    \/ HandleBinary

SpecDecode == InitDecode /\ [][NextDecode]_vars

-----------------------------------------------------------------------------
(* engine.Read, engine.go:34-118.  It runs in a process of its own.        *)

\* the capacity os.ReadFile leaves beyond the length of what it read: one
\* byte for a file of 512 bytes or more, the rest of 512 bytes for a
\* smaller one
ReadFileSpare == {1, 16}

\* os.ReadFile
ReadFile(fs, name, spare) ==
    IF name \in DOMAIN fs
    THEN [b |-> [arr |-> fs[name] \o Zeros(spare), len |-> Len(fs[name])],
          err |-> FALSE]
    ELSE [b |-> [arr |-> <<>>, len |-> 0], err |-> TRUE]

\* engine.go:41-57: the frames of the map file
RECURSIVE ReadMapLoop(_, _)
ReadMapLoop(b, tokens) ==
    IF b.len <= 8 THEN [tokens |-> tokens, err |-> FALSE, panic |-> "none"]
    ELSE
      LET sizeOfPacket == Uint64(b.arr)
          high         == sizeOfPacket + 8
      IN  IF high > Cap(b)
          THEN [tokens |-> {}, err |-> FALSE,
                panic |-> "slice bounds out of range"]
          ELSE
            LET packet == decompress(SubSeq(b.arr, 9, high))
            IN  IF packet.err
                THEN [tokens |-> {}, err |-> TRUE, panic |-> "none"]
                ELSE IF high > b.len
                THEN [tokens |-> {}, err |-> FALSE,
                      panic |-> "slice bounds out of range"]
                ELSE ReadMapLoop(SliceFrom(b, high),
                                 tokens \cup UnmarshalMap(packet.val))

\* engine.go:34-59
readMap(fs, d, spare) ==
    LET file == ReadFile(fs, MapFile(d), spare)
    IN  IF file.err
        THEN [tokens |-> {}, err |-> TRUE, panic |-> "none"]
        ELSE ReadMapLoop(file.b, {})

\* (t *kite.TickerClient).ParseBinary, which the repository keeps outside
\* the files at hand: the ticks of the packets of a message, one per packet
\* of a known variant; a packet that does not fit in the bytes left ends
\* the message.
RECURSIVE ClientPackets(_, _)
ClientPackets(bytes, n) ==
    IF n = 0 \/ Len(bytes) < 2 THEN <<>>
    ELSE LET size == Uint16(bytes)
         IN  IF size + 2 > Len(bytes) THEN <<>>
             ELSE
               LET payload == SubSeq(bytes, 3, size + 2)
                   packet  == [arr |-> payload, len |-> size]
                   values  == ParseBinary(packet, Min(64, size))
                   rest    == ClientPackets(SubSeq(bytes, size + 3, Len(bytes)),
                                            n - 1)
               IN  IF Len(values) \in {2, 7, 8, 11, 16}
                   THEN <<WithDepth(FillTicker(values), packet).ticker>> \o rest
                   ELSE rest

ClientParseBinary(message) ==
    IF Len(message) < 2 THEN <<>>
    ELSE ClientPackets(SubSeq(message, 3, Len(message)), Uint16(message))

\* engine.go:61-75: readMap, the read of the tick log (both errors are
\* logged and Read goes on), the channel and the start of the goroutine
ReadStart ==
    /\ readPc = "idle"
    /\ \E d \in Dates, spare \in ReadFileSpare :
        LET m == readMap(files, d, spare)
        IN  /\ readDate' = d
            /\ readAppended' = appended[d]
            /\ tokenMap' = [tokens |-> m.tokens, err |-> m.err]
            /\ readPanic' = m.panic
            /\ readPc' = IF m.panic = "none" THEN "frames" ELSE "exited"
            /\ readB' = IF m.panic = "none"
                        THEN ReadFile(files, ReadLogFile(d), spare)
                        ELSE readB
    /\ UNCHANGED <<engineVars, hourVars, binVars, dayVars, cacheVars, sideVars, files, readFrames,
                   readTicks>>

\* engine.go:76-86, 96-106: one pass of the goroutine's loop: the frame is
\* cut out and decompressed (an error is logged and the nil packet is used),
\* t.ParseBinary hands its ticks to the loop of Read, b moves on
ReadFrame ==
    /\ readPc = "frames"
    /\ readB.b.len > 8
    /\ LET b            == readB.b
           sizeOfPacket == Uint64(b.arr)
           high         == sizeOfPacket + 8
       IN  IF high > Cap(b)
           THEN /\ readPanic' = "slice bounds out of range"
                /\ readPc' = "exited"
                /\ UNCHANGED <<readB, readFrames, readTicks>>
           ELSE LET packet == decompress(SubSeq(b.arr, 9, high))
                IN  /\ readFrames' = Append(readFrames, packet)
                    /\ readTicks' = readTicks \o ClientParseBinary(packet.val)
                    /\ IF high > b.len
                       THEN /\ readPanic' = "slice bounds out of range"
                            /\ readPc' = "exited"
                            /\ UNCHANGED readB
                       ELSE /\ readB' = [readB EXCEPT !.b = SliceFrom(b, high)]
                            /\ UNCHANGED <<readPanic, readPc>>
    /\ UNCHANGED <<engineVars, hourVars, binVars, dayVars, cacheVars, sideVars, files, readDate,
                   tokenMap, readAppended>>

\* engine.go:76, 107-115: the goroutine's loop ends with 8 bytes or fewer
\* left; no tick arrives for a second, Read prints its count and calls
\* log.Panic("exiting")
ReadExit ==
    /\ readPc = "frames"
    /\ readB.b.len <= 8
    /\ readPanic' = "exiting"
    /\ readPc' = "exited"
    /\ UNCHANGED <<engineVars, hourVars, binVars, dayVars, cacheVars, sideVars, files, readDate,
                   tokenMap, readB, readFrames, readTicks, readAppended>>

-----------------------------------------------------------------------------
(* The engine and the reader over the days: the consumer appends to the    *)
(* tick log of the date, the date changes, the process is started again,   *)
(* Read is called.                                                         *)

\* the date changes
Midnight ==
    /\ now = Len(Times)
    /\ today < MaxDays
    /\ now' = 1
    /\ today' = today + 1
    /\ UNCHANGED <<cfgVars, writePc, connOpen, cancelled, crashed, rotVars,
                   hourVars, binVars, inbound, appended, readVars, cacheVars, sideVars,
                   files>>

\* main.go:22-39: the program is started again, in the same environment
\* and over the same ./binary directory
Restart ==
    /\ writePc # "start"
    /\ writePc' = "start"
    /\ connOpen' = FALSE
    /\ rotationInterval' = 0
    /\ instrumentsPerRequest' = 0
    /\ cancelled' = FALSE
    /\ crashed' = FALSE
    /\ isSubscribed' = TRUE
    /\ pc' = [t \in DOMAIN pc |-> "none"]
    /\ start' = [t \in DOMAIN pc |-> 0]
    /\ nowTimeValue' = [t \in DOMAIN pc |-> 0]
    /\ subscribed' = {}
    /\ lastControl' = NoControl
    /\ cycleSubscribed' = [t \in DOMAIN pc |-> {}]
    /\ batchNo' = [t \in DOMAIN pc |-> 0]
    /\ binMessage' = NoMessage
    /\ binBuilt' = <<>>
    /\ binProduced' = <<>>
    /\ binPanic' = "none"
    /\ binAppendErr' = FALSE
    /\ UNCHANGED <<envTimeout, envCount, now, hourVars, binHandled, dayVars,
                   readVars, cacheVars, sideVars, files>>

FirstMessage == U16(1) \o Pkt(Header(KnownToken, 2))
SecondMessage == U16(1) \o Pkt(Header(OtherKnownToken, 7))

\* the two messages of the feed of these runs
StorageFeed ==
    {[arr |-> b, len |-> Len(b)] : b \in {FirstMessage, SecondMessage}}

\* stands for a file that does not exist
NoFile == <<-1>>

\* a ./binary directory that holds, for the first date, this instrument
\* map and this tick log under the name Read opens
StoreOf(mapBytes, logBytes) ==
    [n \in {MapFile(1) : x \in {mapBytes} \ {NoFile}}
           \cup {ReadLogFile(1) : x \in {logBytes} \ {NoFile}} |->
        IF n = MapFile(1) THEN mapBytes ELSE logBytes]

\* the directory as the first start finds it: empty, or with a tick log
\* somebody put there under the name Read opens
InitStorage ==
    /\ InitServing
    /\ InitHours
    /\ InitBinary
    /\ inbound = StorageFeed
    /\ today = 1
    /\ files \in {<<>>, StoreOf(NoFile, Frame(SecondMessage))}
    /\ appended = [d \in Dates |-> <<>>]
    /\ InitReader
    /\ InitCache
    /\ InitSide

NextStorage ==
    \/ ServeStart
    \/ HandleBinary
    \/ Tick
    \/ Midnight
    \/ Restart
    \/ ReadStart
    \/ ReadFrame
    \/ ReadExit

SpecStorage == InitStorage /\ [][NextStorage]_vars

-----------------------------------------------------------------------------
(* engine.Read on its own, over the files it may find                      *)

\* the first n bytes
Take(bytes, n) == SubSeq(bytes, 1, n)

\* a frame whose payload is not a zstd frame
CorruptFrame == PutUint64(6) \o <<1, 2, 3, 4, 5, 6>>

\* the contents of the tick log Read opens
LogInputs ==
    {   NoFile,
        <<>>,
        Frame(FirstMessage),
        Frame(FirstMessage) \o Frame(SecondMessage),
        \* the last frame cut short: inside its payload, after its prefix,
        \* inside its prefix
        Frame(FirstMessage) \o Take(Frame(SecondMessage), Len(Frame(SecondMessage)) - 3),
        Frame(FirstMessage) \o Take(Frame(SecondMessage), 9),
        Frame(FirstMessage) \o Take(Frame(SecondMessage), 8),
        Frame(FirstMessage) \o Take(Frame(SecondMessage), 4),
        \* a frame that cannot be decompressed, last and before a good one
        Frame(FirstMessage) \o CorruptFrame,
        CorruptFrame \o Frame(SecondMessage)
    }

\* the contents of the instrument-map file Read opens
MapInputs ==
    {   NoFile,
        Frame(MarshalMap),
        Take(Frame(MarshalMap), Len(Frame(MarshalMap)) - 2)
    }

InitRead ==
    /\ InitEngineIdle
    /\ InitHours
    /\ InitBinary
    /\ inbound = {}
    /\ today = 1
    /\ appended = [d \in Dates |-> <<>>]
    /\ files \in {StoreOf(m, l) : m \in MapInputs, l \in LogInputs}
    /\ InitReader
    /\ InitCache
    /\ InitSide

NextRead ==
    \/ ReadStart
    \/ ReadFrame
    \/ ReadExit

SpecRead == InitRead /\ [][NextRead]_vars

-----------------------------------------------------------------------------
(* The tick cache: the consumer of TickerChan (engine.go:359-394) writes   *)
(* k.TickSymbolMap, the quote functions (kite_history.go:213-284) read it. *)
(* A KiteTicker is stored and copied field by field; it is the lock that   *)
(* makes a store or a copy one step for everybody else.                    *)

\* tickers taken from TickerChan
MaxTicks == 2

\* calls of getQuoteFromWebSocket
MaxGets == 2

\* the fields of a KiteTicker the quote is made of
TickerFields == <<"LastPrice", "Depth">>

\* engine.go:369: kite.TokenSymbolMap, token -> "exchange:symbol"
TokenSymbolMap ==
    [tok \in {BrokerInstrumentTokens[i].Token :
                 i \in 1..Len(BrokerInstrumentTokens)} |->
        BrokerInstrumentTokens[CHOOSE i \in 1..Len(BrokerInstrumentTokens) :
                                  BrokerInstrumentTokens[i].Token = tok].Key]

\* a plausible slip: the writer takes the lock the readers take
CanLockAmongReaders(mutex) == ~mutex.writer

\* sync.RWMutex: Lock waits for the writer and for every reader
CanLock(mutex) == ~mutex.writer /\ mutex.readers = {}

\* sync.RWMutex: RLock waits for the writer
CanRLock(mutex) == ~mutex.writer

\* a plausible slip: the ticker is stored under its bare symbol alone
KeysOfSymbolOnly(ticker) ==
    IF ticker.TradingSymbol # "" THEN <<ticker.TradingSymbol>> ELSE <<>>

\* engine.go:365-371: the keys the ticker is stored under
KeysOf(ticker) ==
    (IF ticker.TradingSymbol # "" THEN <<ticker.TradingSymbol>> ELSE <<>>)
    \o (IF ticker.Token \in DOMAIN TokenSymbolMap
        THEN <<TokenSymbolMap[ticker.Token]>> ELSE <<>>)

\* the field stores of m[key] = ticker, for each key in turn
RECURSIVE StoresOf(_)
StoresOf(keys) ==
    IF keys = <<>> THEN <<>>
    ELSE [i \in 1..Len(TickerFields) |->
             [key |-> Head(keys), field |-> TickerFields[i]]]
         \o StoresOf(Tail(keys))

\* one field of m[key] written
StoreField(m, key, field, value) ==
    [k \in (DOMAIN m) \cup {key} |->
        IF k = key
        THEN [(IF key \in DOMAIN m THEN m[key] ELSE NoTicker)
                 EXCEPT ![field] = value]
        ELSE m[k]]

\* engine.go:360-361: a ticker arrives on TickerChan; symbolsMutex, which
\* only this goroutine takes, is locked
CacheReceive ==
    /\ writePc = "serve"
    /\ cachePc = "recv"
    /\ cacheWrites < MaxTicks
    /\ \E sym \in {"", "A"},
          tok \in {KnownToken, SameSymbolToken, UnknownToken},
          price \in {0, cacheWrites + 1} :
        cacheTicker' = [TradingSymbol |-> sym, Token |-> tok,
                        LastPrice |-> price,
                        Depth |-> cacheWrites + 1]
    /\ cacheArrived' = Append(cacheArrived, cacheTicker')
    /\ cacheWrites' = cacheWrites + 1
    /\ cachePc' = "lock"
    /\ UNCHANGED <<engineVars, hourVars, binVars, dayVars, readVars, sideVars, files,
                   TickSymbolMap, TickSymbolMapMutex, cacheTodo, getPc, getKey,
                   getTicker, getCalls, getReturned>>

\* engine.go:364: k.TickSymbolMapMutex.Lock()
CacheLock ==
    /\ cachePc = "lock"
    /\ CanLock(TickSymbolMapMutex)
    /\ TickSymbolMapMutex' = [TickSymbolMapMutex EXCEPT !.writer = TRUE]
    /\ cacheTodo' = StoresOf(KeysOf(cacheTicker))
    /\ cachePc' = "store"
    /\ UNCHANGED <<engineVars, hourVars, binVars, dayVars, readVars, sideVars, files,
                   TickSymbolMap, cacheTicker, cacheWrites, getPc, getKey,
                   getTicker, getCalls, cacheArrived, getReturned>>

\* engine.go:365-371: the next field of the ticker goes into the map
CacheStore ==
    /\ cachePc = "store"
    /\ cacheTodo # <<>>
    /\ TickSymbolMap' = StoreField(TickSymbolMap, Head(cacheTodo).key,
                                   Head(cacheTodo).field,
                                   cacheTicker[Head(cacheTodo).field])
    /\ cacheTodo' = Tail(cacheTodo)
    /\ UNCHANGED <<engineVars, hourVars, binVars, dayVars, readVars, sideVars, files,
                   TickSymbolMapMutex, cachePc, cacheTicker, cacheWrites, getPc,
                   getKey, getTicker, getCalls, cacheArrived, getReturned>>

\* engine.go:372-393: Unlock, the count of processed symbols, and
\* symbolsMutex.Unlock
CacheUnlock ==
    /\ cachePc = "store"
    /\ cacheTodo = <<>>
    /\ TickSymbolMapMutex' = [TickSymbolMapMutex EXCEPT !.writer = FALSE]
    /\ cachePc' = "recv"
    /\ UNCHANGED <<engineVars, hourVars, binVars, dayVars, readVars, sideVars, files,
                   TickSymbolMap, cacheTicker, cacheTodo, cacheWrites, getPc,
                   getKey, getTicker, getCalls, cacheArrived, getReturned>>

\* the symbol the callers ask for
QueryExchange == "NSE"
QueryTradingSymbol == "A"

\* kite_history.go:223: exchange + ":" + tradingSymbol, for the symbols of
\* the directory
SymbolKey(exchange, tradingSymbol) ==
    LET hits == {i \in 1..Len(BrokerInstrumentTokens) :
                    /\ BrokerInstrumentTokens[i].Exchange = exchange
                    /\ BrokerInstrumentTokens[i].Name = tradingSymbol}
    IN  IF hits = {} THEN "?" ELSE BrokerInstrumentTokens[CHOOSE i \in hits : TRUE].Key

\* a plausible slip: the bare symbol first, exchange:symbol second
FoundKeyBareFirst(m, exchange, tradingSymbol) ==
    IF tradingSymbol \in DOMAIN m THEN tradingSymbol
    ELSE IF SymbolKey(exchange, tradingSymbol) \in DOMAIN m
    THEN SymbolKey(exchange, tradingSymbol) ELSE ""

\* kite_history.go:223-231: exchange:symbol first, the bare symbol second
FoundKey(m, exchange, tradingSymbol) ==
    IF SymbolKey(exchange, tradingSymbol) \in DOMAIN m
    THEN SymbolKey(exchange, tradingSymbol)
    ELSE IF tradingSymbol \in DOMAIN m THEN tradingSymbol ELSE ""

\* kite_history.go:213-216: a call of getQuoteFromWebSocket; the map is
\* not nil once Serve has run
GetCall(c) ==
    /\ writePc = "serve"
    /\ getPc[c] \in {"idle", "got", "not found"}
    /\ getCalls < MaxGets
    /\ getCalls' = getCalls + 1
    /\ getPc' = [getPc EXCEPT ![c] = "rlock"]
    /\ getKey' = [getKey EXCEPT ![c] = ""]
    /\ getTicker' = [getTicker EXCEPT ![c] = NoTicker]
    /\ UNCHANGED <<engineVars, hourVars, binVars, dayVars, readVars, sideVars, files,
                   TickSymbolMap, TickSymbolMapMutex, cachePc, cacheTicker,
                   cacheTodo, cacheWrites, cacheArrived, getReturned>>

\* kite_history.go:219: kite.TickSymbolMapMutex.RLock()
GetRLock(c) ==
    /\ getPc[c] = "rlock"
    /\ CanRLock(TickSymbolMapMutex)
    /\ TickSymbolMapMutex' =
           [TickSymbolMapMutex EXCEPT !.readers = @ \cup {c}]
    /\ getPc' = [getPc EXCEPT ![c] = "lookup"]
    /\ UNCHANGED <<engineVars, hourVars, binVars, dayVars, readVars, sideVars, files,
                   TickSymbolMap, cachePc, cacheTicker, cacheTodo, cacheWrites,
                   getKey, getTicker, getCalls, cacheArrived, getReturned>>

\* kite_history.go:223-231: the lookup; a miss returns the error through
\* the deferred RUnlock, a hit starts the copy of the ticker with its
\* first field
GetLookup(c) ==
    /\ getPc[c] = "lookup"
    /\ LET key == FoundKey(TickSymbolMap, QueryExchange, QueryTradingSymbol)
       IN  IF key = ""
           THEN /\ getPc' = [getPc EXCEPT ![c] = "not found"]
                /\ TickSymbolMapMutex' =
                       [TickSymbolMapMutex EXCEPT !.readers = @ \ {c}]
                /\ UNCHANGED <<getKey, getTicker>>
           ELSE /\ getPc' = [getPc EXCEPT ![c] = "copy"]
                /\ getKey' = [getKey EXCEPT ![c] = key]
                /\ getTicker' = [getTicker EXCEPT ![c].LastPrice =
                                    TickSymbolMap[key].LastPrice]
                /\ UNCHANGED TickSymbolMapMutex
    /\ UNCHANGED <<engineVars, hourVars, binVars, dayVars, readVars, sideVars, files,
                   TickSymbolMap, cachePc, cacheTicker, cacheTodo, cacheWrites,
                   getCalls, cacheArrived, getReturned>>

\* kite_history.go:224-259: the rest of the copy, the quote built from
\* it, the return through the deferred RUnlock
GetReturn(c) ==
    /\ getPc[c] = "copy"
    /\ getTicker' = [getTicker EXCEPT ![c].Depth =
                        TickSymbolMap[getKey[c]].Depth]
    /\ TickSymbolMapMutex' =
           [TickSymbolMapMutex EXCEPT !.readers = @ \ {c}]
    /\ getPc' = [getPc EXCEPT ![c] = "got"]
    /\ getReturned' = Max(getReturned, getTicker'[c].Depth)
    /\ UNCHANGED <<engineVars, hourVars, binVars, dayVars, readVars, sideVars, files,
                   TickSymbolMap, cachePc, cacheTicker, cacheTodo, cacheWrites,
                   getKey, getCalls, cacheArrived>>

Get(c) ==
    \/ GetCall(c)
    \/ GetRLock(c)
    \/ GetLookup(c)
    \/ GetReturn(c)

InitCacheRun ==
    /\ InitEngineIdle
    /\ InitHours
    /\ InitBinary
    /\ InitQuiet

NextCache ==
    \/ ServeStart
    \/ CacheReceive
    \/ CacheLock
    \/ CacheStore
    \/ CacheUnlock
    \/ \E c \in Callers : Get(c)

SpecCache == InitCacheRun /\ [][NextCache]_vars

-----------------------------------------------------------------------------
(* addToBatchAndWait: the subscription of one token outside the rotation,  *)
(* then the cache polled until a priced entry of the symbol is in it or    *)
(* the time is up. Time is counted in milliseconds.                        *)

\* kite_history.go:454: maxWaitTime := 5 * time.Second
maxWaitTime == 5000

\* kite_history.go:455: checkInterval := 100 * time.Millisecond
checkInterval == 100

\* the trading symbols addToBatchAndWait is called with, on QueryExchange:
\* one of the directory, one that is not
WaitSymbols == {QueryTradingSymbol, "Z"}

\* kite_history.go:431-432: (*BrokerInstrumentTokens)[symbolKey]
InstrumentOf(exchange, tradingSymbol) ==
    LET hits == {i \in 1..Len(BrokerInstrumentTokens) :
                    BrokerInstrumentTokens[i].Key =
                        SymbolKey(exchange, tradingSymbol)}
    IN  IF hits = {} THEN [exists |-> FALSE, Token |-> 0]
        ELSE [exists |-> TRUE,
              Token |-> BrokerInstrumentTokens[CHOOSE i \in hits : TRUE].Token]

\* kite_history.go:461-462, 467-468: exists && ticker.LastPrice > 0
PricedEntry(m, key) == key \in DOMAIN m /\ m[key].LastPrice > 0

\* kite_history.go:376-385, 426-435: the call, which the quote functions
\* make after a lookup that found no entry of the symbol; an instrument
\* that is not in the directory ends it with an error
WaitCall ==
    /\ waitPc = "idle"
    /\ CanRLock(TickSymbolMapMutex)
    /\ \E sym \in WaitSymbols :
        /\ FoundKey(TickSymbolMap, QueryExchange, sym) = ""
        /\ waitSymbol' = sym
        /\ waitPc' = IF InstrumentOf(QueryExchange, sym).exists
                     THEN "subscribe" ELSE "error"
    /\ UNCHANGED <<engineVars, hourVars, binVars, dayVars, readVars,
                   cacheVars, files, ivVars, shutVars, histVars,
                   waitElapsed, waitSubscribed, waitSeen>>

\* kite_history.go:438-451: no ticker client is an error; SubscribeFull of
\* the token on the client, whose failure is an error; then
\* startTime := time.Now()
WaitSubscribe ==
    /\ waitPc = "subscribe"
    /\ IF ~connOpen
       THEN /\ waitPc' = "error"
            /\ UNCHANGED <<waitElapsed, waitSubscribed, subscribed>>
       ELSE \E err \in BOOLEAN :
            /\ waitSubscribed' = waitSubscribed \cup
                   {InstrumentOf(QueryExchange, waitSymbol).Token}
            /\ subscribed' = subscribed \cup
                   {InstrumentOf(QueryExchange, waitSymbol).Token}
            /\ waitPc' = IF err THEN "error" ELSE "poll"
            /\ waitElapsed' = 0
    /\ UNCHANGED <<cfgVars, writePc, connOpen, cancelled, crashed, now,
                   isSubscribed, pc, start, nowTimeValue, lastControl,
                   cycleSubscribed, batchNo, hourVars, binVars, dayVars,
                   readVars, cacheVars, files, ivVars, shutVars, histVars,
                   waitSymbol, waitSeen>>

\* kite_history.go:458-472, 478: the loop condition, then the two lookups
\* between RLock and RUnlock
WaitPoll ==
    /\ waitPc = "poll"
    /\ IF waitElapsed >= maxWaitTime
       THEN /\ waitPc' = "timeout"
            /\ UNCHANGED waitSeen
       ELSE /\ CanRLock(TickSymbolMapMutex)
            /\ waitSeen' = (SymbolKey(QueryExchange, waitSymbol)
                               \in DOMAIN TickSymbolMap)
            /\ waitPc' =
                 IF \/ PricedEntry(TickSymbolMap,
                                   SymbolKey(QueryExchange, waitSymbol))
                    \/ PricedEntry(TickSymbolMap, waitSymbol)
                 THEN "ok" ELSE "sleep"
    /\ UNCHANGED <<engineVars, hourVars, binVars, dayVars, readVars,
                   cacheVars, files, ivVars, shutVars, histVars,
                   waitSymbol, waitElapsed, waitSubscribed>>

\* kite_history.go:475: time.Sleep(checkInterval)
WaitSleep ==
    /\ waitPc = "sleep"
    /\ waitElapsed' = waitElapsed + checkInterval
    /\ waitPc' = "poll"
    /\ UNCHANGED <<engineVars, hourVars, binVars, dayVars, readVars,
                   cacheVars, files, ivVars, shutVars, histVars,
                   waitSymbol, waitSubscribed, waitSeen>>

InitWaitRun ==
    /\ InitEngineIdle
    /\ InitHours
    /\ InitBinary
    /\ InitQuiet

\* the consumer of the tickers beside one caller of addToBatchAndWait
NextWait ==
    \/ ServeStart
    \/ CacheReceive
    \/ CacheLock
    \/ CacheStore
    \/ CacheUnlock
    \/ WaitCall
    \/ WaitSubscribe
    \/ WaitPoll
    \/ WaitSleep

SpecWait == InitWaitRun /\ [][NextWait]_vars

\* the rotation beside one caller of addToBatchAndWait, at 09:15 under a
\* valid configuration, with a transport that delivers nothing
InitOnDemand ==
    /\ InitServing
    /\ now = 3
    /\ InitHours
    /\ InitBinary
    /\ InitQuiet

NextOnDemand ==
    \/ ServeStart
    \/ Connect
    \/ \E t \in Tasks : Rotate(t)
    \/ WaitCall
    \/ WaitSubscribe
    \/ WaitPoll
    \/ WaitSleep

SpecOnDemand == InitOnDemand /\ [][NextOnDemand]_vars

\* the caller and the consumer are goroutines the scheduler keeps running
FairSpecWait ==
    /\ SpecWait
    /\ WF_vars(WaitSubscribe) /\ WF_vars(WaitPoll) /\ WF_vars(WaitSleep)
    /\ WF_vars(CacheLock) /\ WF_vars(CacheStore) /\ WF_vars(CacheUnlock)

-----------------------------------------------------------------------------
(* The option analytics, unnamed/part_002.  Prices are counted in          *)
(* millionths (the tolerance of the search is one millionth), vega in      *)
(* hundred-millionths, volatilities in ten-thousandths.  blackScholes and  *)
(* blackScholesVega are float64 formulas over math.Erf, math.Exp and       *)
(* math.Log; the search sees them only through the price and the vega they *)
(* give at the volatilities it tries, so they are a table of such answers, *)
(* one answer for each of three stretches of the volatility axis, or NaN   *)
(* throughout for an input outside their domain.                           *)

\* part_002:90: const maxIterations = 100
maxIterations == 100

\* part_002:91: const tolerance = 1e-6, in millionths
tolerance == 1

\* part_002:92: const minVolatility = 1e-4, in ten-thousandths
minVolatility == 1

\* part_002:93: const maxVolatility = 10.0, in ten-thousandths
maxVolatility == 100000

\* part_002:94: const verySmallVega = 1e-8, in hundred-millionths
verySmallVega == 1

\* part_002:96: sigma := 0.5, in ten-thousandths
initialSigma == 5000

\* part_002:116: diff/vega in ten-thousandths, for diff in millionths and
\* vega in hundred-millionths
SigmaPerPrice == 1000000

\* the prices and the vegas the formulas give, and the market prices asked for
PriceGrid == {0, 5, 20}
VegaGrid == {0, 5000000}
MarketPrices == {0, 5}

\* the stretches of the volatility axis
Stretch(sigma) ==
    IF sigma < initialSigma THEN "below"
    ELSE IF sigma = initialSigma THEN "guess" ELSE "above"

BSTables ==
    [{"below", "guess", "above"} -> [price : PriceGrid, vega : VegaGrid]]

\* part_002:21-66: blackScholes(input, sigma)
blackScholes(table, sigma) == table[Stretch(sigma)].price

\* part_002:70-86: blackScholesVega(input, sigma)
blackScholesVega(table, sigma) == table[Stretch(sigma)].vega

Abs(x) == IF x < 0 THEN 0 - x ELSE x

\* part_002:109: math.Abs(diff) < tolerance*10
AcceptedAtSmallVega(diff) == Abs(diff) < tolerance * 10

\* part_002:118-122: sigma kept inside [minVolatility, maxVolatility]
Clamp(sigma) ==
    IF sigma < minVolatility THEN minVolatility
    ELSE IF sigma > maxVolatility THEN maxVolatility ELSE sigma

\* part_002:246-250, 89-96: CalculateOptionAnalytics calls
\* CalculateImpliedVolatility for an input and a market price
IVCall ==
    /\ ivPc = "idle"
    /\ ivMarket' \in MarketPrices
    /\ \E nan \in BOOLEAN :
        /\ ivNaN' = nan
        /\ ivTable' \in IF nan THEN {<<>>} ELSE BSTables
    /\ ivSigma' = initialSigma
    /\ ivI' = 0
    /\ ivPc' = "loop"
    /\ UNCHANGED <<engineVars, hourVars, binVars, dayVars, readVars,
                   cacheVars, files, waitVars, shutVars, histVars, ivResult, ivOutput>>

\* part_002:98-127: one iteration.  With NaN every comparison is false and
\* sigma stays NaN.
IVIterate ==
    /\ ivPc = "loop"
    /\ ivI < maxIterations
    /\ IF ivNaN
       THEN /\ ivI' = ivI + 1
            /\ UNCHANGED <<ivPc, ivSigma, ivResult>>
       ELSE LET calculatedPrice == blackScholes(ivTable, ivSigma)
                diff == calculatedPrice - ivMarket
                vega == blackScholesVega(ivTable, ivSigma)
            IN  IF Abs(diff) < tolerance
                THEN /\ ivResult' = [sigma |-> ivSigma, err |-> "none"]
                     /\ ivPc' = "returned"
                     /\ UNCHANGED <<ivSigma, ivI>>
                ELSE IF Abs(vega) < verySmallVega
                THEN /\ ivResult' =
                          IF AcceptedAtSmallVega(diff)
                          THEN [sigma |-> ivSigma, err |-> "none"]
                          ELSE [sigma |-> 0, err |-> "vega is too small"]
                     /\ ivPc' = "returned"
                     /\ UNCHANGED <<ivSigma, ivI>>
                ELSE /\ ivSigma' =
                          Clamp(ivSigma - ((diff * SigmaPerPrice) \div vega))
                     /\ ivI' = ivI + 1
                     /\ UNCHANGED <<ivPc, ivResult>>
    /\ UNCHANGED <<engineVars, hourVars, binVars, dayVars, readVars,
                   cacheVars, files, waitVars, shutVars, histVars, ivMarket, ivTable, ivNaN,
                   ivOutput>>

\* part_002:129: the loop is over without a return
IVExhausted ==
    /\ ivPc = "loop"
    /\ ivI = maxIterations
    /\ ivResult' = [sigma |-> 0, err |-> "did not converge"]
    /\ ivPc' = "returned"
    /\ UNCHANGED <<engineVars, hourVars, binVars, dayVars, readVars,
                   cacheVars, files, waitVars, shutVars, histVars, ivMarket, ivTable, ivSigma,
                   ivNaN, ivI, ivOutput>>

\* part_002:251-271: the empty output with the error, or the volatility
\* and the Greeks at it
IVAnalytics ==
    /\ ivPc = "returned"
    /\ ivOutput' =
         IF ivResult.err # "none"
         THEN [ImpliedVolatility |-> 0, Greeks |-> "zero", err |-> ivResult.err]
         ELSE [ImpliedVolatility |-> ivResult.sigma, Greeks |-> "computed",
               err |-> "none"]
    /\ ivPc' = "done"
    /\ UNCHANGED <<engineVars, hourVars, binVars, dayVars, readVars,
                   cacheVars, files, waitVars, shutVars, histVars, ivMarket, ivTable, ivSigma,
                   ivNaN, ivI, ivResult>>

InitAnalytics ==
    /\ InitEngineIdle
    /\ InitHours
    /\ InitBinary
    /\ InitQuiet

NextAnalytics ==
    \/ IVCall
    \/ IVIterate
    \/ IVExhausted
    \/ IVAnalytics

SpecAnalytics == InitAnalytics /\ [][NextAnalytics]_vars

-----------------------------------------------------------------------------
(* The end of the long-running tasks.  The rotation task looks at the      *)
(* context in its two selects (engine.go:286-288, 295-297).  The two       *)
(* consumers are range loops over TickerChan and BinaryTickerChan          *)
(* (engine.go:359, 397) without a select: a range loop ends when its       *)
(* channel is closed and drained.  The engine closes neither channel; the  *)
(* ticker client that owns them is not among the sources.                  *)

\* engine.go:521: ticker.Serve(ctx), the client's socket loop.  On
\* cancellation it unwinds; whether it also closes its two channels is
\* not fixed by anything in the sources, so a close may or may not happen.
ClientClose ==
    /\ writePc # "start"
    /\ cancelled
    /\ ~chanClosed
    /\ chanClosed' = TRUE
    /\ UNCHANGED <<engineVars, hourVars, binVars, dayVars, readVars, cacheVars,
                   waitVars, ivVars, binPc, histVars, files>>

\* engine.go:397, 518: the range over BinaryTickerChan ends
BinaryConsumerExit ==
    /\ writePc # "start"
    /\ binPc = "recv"
    /\ chanClosed
    /\ ~crashed
    /\ binPc' = "done"
    /\ UNCHANGED <<engineVars, hourVars, binVars, dayVars, readVars, cacheVars,
                   waitVars, ivVars, chanClosed, histVars, files>>

\* engine.go:359, 394: the range over TickerChan ends
CacheConsumerExit ==
    /\ writePc # "start"
    /\ cachePc = "recv"
    /\ chanClosed
    /\ ~crashed
    /\ cachePc' = "done"
    /\ UNCHANGED <<engineVars, hourVars, binVars, dayVars, readVars, sideVars,
                   files, TickSymbolMap, TickSymbolMapMutex, cacheTicker,
                   cacheTodo, cacheWrites, getPc, getKey, getTicker, getCalls,
                   cacheArrived, getReturned>>

\* the engine with its rotation tasks and its two consumers, under every
\* value of the batch-size setting; the transport delivers one kind of
\* message and no ticker
InitShutdown ==
    /\ InitSched
    /\ envTimeout = <<"2">>
    /\ now = 2
    /\ InitHours
    /\ InitBinary
    /\ inbound = {[arr |-> FirstMessage, len |-> Len(FirstMessage)]}
    /\ InitStore
    /\ InitReader
    /\ InitCache
    /\ InitSide

NextShutdown ==
    \/ ServeStart
    \/ ServeReturn
    \/ Cancel
    \/ Connect
    \/ \E t \in Tasks : Rotate(t)
    \/ HandleBinary
    \/ ClientClose
    \/ BinaryConsumerExit
    \/ CacheConsumerExit

SpecShutdown == InitShutdown /\ [][NextShutdown]_vars

\* goroutines that can run do run; what the transport and the client do
\* (a message, a ticker, a connect event, the close of the channels) is
\* not the engine's to force
FairSpecShutdown ==
    /\ SpecShutdown
    /\ WF_vars(ServeStart)
    /\ WF_vars(ServeReturn)
    /\ \A t \in Tasks : WF_vars(Rotate(t))
    /\ WF_vars(BinaryConsumerExit)
    /\ WF_vars(CacheConsumerExit)

-----------------------------------------------------------------------------
(* A reconnect.  Every event on ConnectChan starts one more rotation       *)
(* goroutine (engine.go:279-283); the goroutine of the connection before   *)
(* ends only when the context is done.                                     *)

\* the first connection and one reconnect
ReconnectTasks == {1, 2}

\* engine.go:277-278: the engine before Serve under a valid configuration,
\* with room for the two connect events
InitReconnect ==
    /\ envTimeout = <<"2">>
    /\ envCount = <<"2">>
    /\ writePc = "start"
    /\ connOpen = FALSE
    /\ rotationInterval = 0
    /\ instrumentsPerRequest = 0
    /\ cancelled = FALSE
    /\ crashed = FALSE
    /\ now = 2
    /\ isSubscribed = TRUE
    /\ pc = [t \in ReconnectTasks |-> "none"]
    /\ start = [t \in ReconnectTasks |-> 0]
    /\ nowTimeValue = [t \in ReconnectTasks |-> 0]
    /\ subscribed = {}
    /\ lastControl = NoControl
    /\ cycleSubscribed = [t \in ReconnectTasks |-> {}]
    /\ batchNo = [t \in ReconnectTasks |-> 0]
    /\ InitHours
    /\ InitBinary
    /\ InitQuiet

NextReconnect ==
    \/ ServeStart
    \/ Cancel
    \/ Connect
    \/ \E t \in ReconnectTasks : Rotate(t)

SpecReconnect == InitReconnect /\ [][NextReconnect]_vars

-----------------------------------------------------------------------------
(* GetHistoricalMinutelyData, kite_history.go:14-98.  A candle row of the  *)
(* response is [n, bad]: the number of its fields and the place of a field *)
(* that does not parse (0: every field parses).  An element of candles is  *)
(* the number of the row whose Candle it points to.                        *)

\* candle rows of one response
MaxRows == 2

\* the rows a response may hold: empty, without and with open interest,
\* with a field too many, with a field that is no number
RowShapes ==
    {[n |-> 0, bad |-> 0], [n |-> 6, bad |-> 0], [n |-> 7, bad |-> 0],
     [n |-> 8, bad |-> 0], [n |-> 7, bad |-> 3]}

RECURSIVE RowSeqs(_)
RowSeqs(k) ==
    IF k = 0 THEN {<<>>}
    ELSE RowSeqs(k - 1)
         \cup {Append(rows, r) : rows \in {q \in RowSeqs(k - 1) : Len(q) = k - 1},
                                 r \in RowShapes}

\* what the request and the decoding of its body may give
Responses ==
    {[outcome |-> o, rows |-> <<>>] :
        o \in {"request error", "bad json", "not 200", "no data"}}
    \cup {[outcome |-> "ok", rows |-> rows] : rows \in RowSeqs(MaxRows)}

\* kite_history.go:31-44: the request, json.Unmarshal, the test of the
\* code and of respData.Data; candles := []*Candle{}
HistCall ==
    /\ histPc = "idle"
    /\ \E resp \in Responses :
        /\ histResp' = resp
        /\ IF resp.outcome = "ok"
           THEN /\ histPc' = "loop"
                /\ histErr' = "none"
           ELSE /\ histPc' = "done"
                /\ histErr' = resp.outcome
    /\ histI' = 1
    /\ histJ' = 1
    /\ histCandles' = <<>>
    /\ UNCHANGED <<engineVars, hourVars, binVars, dayVars, readVars,
                   cacheVars, files, waitVars, ivVars, shutVars>>

\* kite_history.go:47-93: one field of the row: the switch on its place
\* (a parse error returns nil and the error; a place above 6 has no
\* case), then candles = append(candles, c)
HistField ==
    /\ histPc = "loop"
    /\ histI <= Len(histResp.rows)
    /\ histJ <= histResp.rows[histI].n
    /\ IF histResp.rows[histI].bad = histJ
       THEN /\ histPc' = "done"
            /\ histErr' = "parse error"
            /\ histCandles' = <<>>
            /\ UNCHANGED histJ
       ELSE /\ histCandles' = Append(histCandles, histI)
            /\ histJ' = histJ + 1
            /\ UNCHANGED <<histPc, histErr>>
    /\ UNCHANGED <<engineVars, hourVars, binVars, dayVars, readVars,
                   cacheVars, files, waitVars, ivVars, shutVars,
                   histResp, histI>>

\* kite_history.go:45-47: the row is done, the next row gets its Candle
HistNextRow ==
    /\ histPc = "loop"
    /\ histI <= Len(histResp.rows)
    /\ histJ > histResp.rows[histI].n
    /\ histI' = histI + 1
    /\ histJ' = 1
    /\ UNCHANGED <<engineVars, hourVars, binVars, dayVars, readVars,
                   cacheVars, files, waitVars, ivVars, shutVars,
                   histPc, histResp, histCandles, histErr>>

\* kite_history.go:96: return candles, nil
HistReturn ==
    /\ histPc = "loop"
    /\ histI > Len(histResp.rows)
    /\ histPc' = "done"
    /\ UNCHANGED <<engineVars, hourVars, binVars, dayVars, readVars,
                   cacheVars, files, waitVars, ivVars, shutVars,
                   histResp, histI, histJ, histCandles, histErr>>

InitHistory ==
    /\ InitEngineIdle
    /\ InitHours
    /\ InitBinary
    /\ InitQuiet

NextHistory ==
    \/ HistCall
    \/ HistField
    \/ HistNextRow
    \/ HistReturn

SpecHistory == InitHistory /\ [][NextHistory]_vars

-----------------------------------------------------------------------------
(* The trading-hours decision on its own: withinTradingTime applied to     *)
(* every minute of the day and every token of the universe.                *)

CheckHours ==
    /\ hourQuery = NoQuery
    /\ \E h \in 0..23, m \in 0..59, tok \in Range(allTokens) :
        /\ hourQuery' = [hour |-> h, minute |-> m, token |-> tok]
        /\ hourActive' = withinTradingTime(tok, h * 60 + m)
    /\ UNCHANGED <<engineVars, binVars, dayVars, readVars, cacheVars, sideVars, files>>

NextHours == CheckHours

InitCheckHours == InitEngineIdle /\ InitHours /\ InitBinary /\ InitQuiet

SpecHours == InitCheckHours /\ [][NextHours]_vars

-----------------------------------------------------------------------------

Next ==
    \/ ServeStart
    \/ ServeReturn
    \/ Cancel
    \/ Tick
    \/ Connect
    \/ \E t \in Tasks : Rotate(t)

Spec == Init /\ [][Next]_vars

\* goroutines that can run do run
FairSpec ==
    /\ Spec
    /\ WF_vars(ServeStart)
    /\ WF_vars(ServeReturn)
    /\ \A t \in Tasks : WF_vars(Rotate(t))

-----------------------------------------------------------------------------
(* What the specification says, in its own terms                           *)

\* the segment the directory gives a token
SegmentOf(tok) ==
    BrokerInstrumentTokens[CHOOSE i \in 1..Len(BrokerInstrumentTokens) :
                              BrokerInstrumentTokens[i].Token = tok].Segment

\* (h, m) is not before (h0, m0) / not after (h1, m1) on the venue clock
NotBefore(h, m, h0, m0) == h > h0 \/ (h = h0 /\ m >= m0)
NotAfter(h, m, h1, m1) == h < h1 \/ (h = h1 /\ m <= m1)

\* the session of the token's segment is open at h:m
SessionOpen(tok, h, m) ==
    IF SegmentOf(tok) = "MCX-FUT"
    THEN NotBefore(h, m, 9, 0) /\ NotAfter(h, m, 23, 30)
    ELSE NotBefore(h, m, 9, 15) /\ NotAfter(h, m, 15, 30)

SessionOpenAtMinute(tok, v) == SessionOpen(tok, v \div 60, v % 60)

\* a universe cut into consecutive batches of b tokens, the last one shorter
RECURSIVE Chunks(_, _)
Chunks(seq, b) ==
    IF seq = <<>> THEN <<>>
    ELSE IF Len(seq) <= b THEN <<seq>>
    ELSE <<SubSeq(seq, 1, b)>> \o Chunks(SubSeq(seq, b + 1, Len(seq)), b)

\* task t is inside a batch step
InBatchStep(t) == pc[t] \in {"unsub", "sub", "wait"}

\* task t has issued every Subscribe of its pass: it waits in the last batch
PassComplete(t) ==
    /\ BatchSize >= 1
    /\ pc[t] = "wait"
    /\ EndOf(start[t]) = Len(allTokens)

\* the step of task t sends a control message
SendsUnsubscribe(t) ==
    /\ pc[t] = "unsub" /\ pc'[t] = "sub"
    /\ start[t] - BatchSize >= 0
    /\ isSubscribed

SendsSubscribe(t) ==
    /\ pc[t] = "sub" /\ pc'[t] = "wait"
    /\ Len(activeBatchTokens(t)) > 0

\* both settings are present, numeric and positive
ConfigValid ==
    /\ ~ParseFloat(envTimeout).err /\ ParseFloat(envTimeout).val > 0
    /\ ~ParseFloat(envCount).err /\ ParseFloat(envCount).val > 0

-----------------------------------------------------------------------------
(* C1: at every moment the tokens subscribed and not yet unsubscribed all  *)
(* belong to one batch, the wrap from the last batch to the first          *)
(* included.  The code unsubscribes the previous chunk only when           *)
(* start - batch >= 0, so at the wrap the last batch stays subscribed.     *)
C1_SingleBatchInFlight ==
    (ConfigValid /\ BatchSize >= 1) =>
        \E k \in 1..Len(Chunks(allTokens, BatchSize)) :
            subscribed \subseteq Range(Chunks(allTokens, BatchSize)[k])

(* C2: the batches are visited in the order tokens[0..B), tokens[B..2B),   *)
(* ..., the last one holding the rest, then the first again; every token   *)
(* lies in exactly one batch.                                              *)
C2_BatchOrder ==
    BatchSize >= 1 =>
        LET chunks == Chunks(allTokens, BatchSize)
            nb     == Len(chunks)
        IN  /\ \A t \in Tasks :
                InBatchStep(t) =>
                    Slice(allTokens, start[t], EndOf(start[t]))
                        = chunks[((batchNo[t] + nb - 1) % nb) + 1]
            /\ \A i \in 1..Len(allTokens) :
                Cardinality({k \in 1..nb :
                    \E j \in 1..Len(chunks[k]) :
                        /\ chunks[k][j] = allTokens[i]
                        /\ (k - 1) * BatchSize + j = i}) = 1

\* the first batch is visited again while the last one is still subscribed
C2_Witness ==
    \E t \in Tasks :
        /\ BatchSize = 2
        /\ pc[t] = "sub"
        /\ start[t] = 0
        /\ allTokens[Len(allTokens)] \in subscribed

C4_ActiveIffSessionOpen ==
    hourQuery # NoQuery =>
        (hourActive <=>
            SessionOpen(hourQuery.token, hourQuery.hour, hourQuery.minute))

\* an equity token asked at 15:30, the last minute of its session
C4_Witness ==
    /\ hourQuery.hour = 15 /\ hourQuery.minute = 30
    /\ hourQuery.token \in equityTokens
    /\ hourActive

(* C5: once cancellation has been raised no further Subscribe or           *)
(* Unsubscribe is sent.  The code looks at the context only at the top of  *)
(* a batch step, not before each phase.                                    *)
C5_NoControlAfterCancel ==
    [][(ConfigValid /\ cancelled) =>
        ~(\E t \in Tasks : SendsUnsubscribe(t) \/ SendsSubscribe(t))]_vars

(* C6: after the cancellation Serve returns and engine.Write eventually    *)
(* returns to its caller.                                                  *)
C6_WriteReturns ==
    (ConfigValid /\ cancelled /\ ~crashed) ~> (writePc = "returned" \/ crashed)

(* C7: with a missing, unparsable, zero or negative setting the engine     *)
(* does not start: no connection is opened, no rotation task runs.         *)
C7_InvalidConfigDoesNotStart ==
    ~ConfigValid => (~connOpen /\ \A t \in Tasks : pc[t] = "none")

-----------------------------------------------------------------------------
(* The decoder, in the specification's terms                               *)

\* the header fields of a tick
HeaderFields ==
    {"Token", "LastPrice", "High", "Low", "Open", "Close", "PriceChange",
     "ExchangeTimestamp", "LastTradedQuantity", "AverageTradedPrice",
     "VolumeTraded", "TotalBuy", "TotalSell", "LastTradedTimestamp", "OI",
     "OIHigh", "OILow"}

QuoteFull ==
    <<"Token", "LastPrice", "LastTradedQuantity", "AverageTradedPrice",
      "VolumeTraded", "TotalBuy", "TotalSell", "High", "Low", "Open", "Close">>

\* the positional layout of each packet variant
Layout(n) ==
    CASE n = 2 -> <<"Token", "LastPrice">>
      [] n = 7 -> <<"Token", "LastPrice", "High", "Low", "Open", "Close",
                    "ExchangeTimestamp">>
      [] n = 8 -> <<"Token", "LastPrice", "High", "Low", "Open", "Close",
                    "PriceChange", "ExchangeTimestamp">>
      [] n = 11 -> QuoteFull
      [] n = 16 -> QuoteFull \o <<"LastTradedTimestamp", "OI", "OIHigh",
                                  "OILow", "ExchangeTimestamp">>

\* the value the layout gives field f for the header values v
LayoutValue(f, v) ==
    IF \E j \in 1..Len(v) : Layout(Len(v))[j] = f
    THEN v[CHOOSE j \in 1..Len(v) : Layout(Len(v))[j] = f]
    ELSE 0

(* C8: whatever the declared packet count and packet lengths of a message, *)
(* the decoder does not crash on them.  The code slices                    *)
(* message[2 : packetSize+2] unchecked, which panics when the declared     *)
(* length runs past the buffer or wraps around in 16 bits.  Stated for a   *)
(* message that holds its packet count and its first length header.        *)
C8_MalformedLengthsDoNotCrash ==
    binMessage.len >= 4 => binPanic # "slice bounds out of range"

(* C9: a packet whose token is not in the instrument directory still       *)
(* yields its tick, without lot size, and the decoder keeps running.  The  *)
(* code reads LotSize through the nil map entry and panics.  Stated for a  *)
(* packet of a recognised variant.                                         *)
C9_UnknownTokenTickProduced ==
    \A i \in 1..Len(binBuilt) :
        (/\ Len(binBuilt[i].values) \in {2, 7, 8, 11, 16}
         /\ binBuilt[i].ticker.Token \notin DOMAIN tokenTradingsymbolMap) =>
            /\ binPanic = "none"
            /\ i <= Len(binProduced)
            /\ binProduced[i].Token = binBuilt[i].ticker.Token
            /\ binProduced[i].LotSize = 0

(* C10: the number of header values selects the variant and the tick's     *)
(* fields are filled by position: 2, 7, 8, 11 and 16 values as the layout  *)
(* table says, every field outside the variant left at zero.               *)
C10_FieldsByPosition ==
    \A i \in 1..Len(binBuilt) :
        LET v  == binBuilt[i].values
            tk == binBuilt[i].ticker
        IN  Len(v) \in {2, 7, 8, 11, 16} =>
                \A f \in HeaderFields : tk[f] = LayoutValue(f, v)

\* a 16-field packet was decoded, its last fields in place
C10_Witness ==
    \E i \in 1..Len(binBuilt) :
        /\ Len(binBuilt[i].values) = 16
        /\ binBuilt[i].ticker.OILow = binBuilt[i].values[15]
        /\ binBuilt[i].ticker.OILow # 0
        /\ binBuilt[i].ticker.PriceChange = 0

\* the orders of a depth side as the flat values they were built from
RECURSIVE FlatOrders(_)
FlatOrders(orders) ==
    IF orders = <<>> THEN <<>>
    ELSE <<orders[1].Quantity, orders[1].Price, orders[1].Orders>>
         \o FlatOrders(Tail(orders))

(* C11: every tick decoded for a token of the instrument directory comes   *)
(* out of the decoder carrying the lot size the directory gives that token.*)
C11_LotSizeFromDirectory ==
    \A i \in 1..Len(binBuilt) : \A j \in 1..Len(BrokerInstrumentTokens) :
        BrokerInstrumentTokens[j].Token = binBuilt[i].ticker.Token =>
            /\ i <= Len(binProduced)
            /\ binProduced[i].Token = binBuilt[i].ticker.Token
            /\ binProduced[i].LotSize = BrokerInstrumentTokens[j].LotSize

\* a message of two packets decoded, the second with the lot size 100
C11_Witness ==
    /\ Len(binProduced) = 2
    /\ binProduced[2].Token = OtherKnownToken
    /\ binProduced[2].LotSize = 100
    /\ binProduced[1].LotSize = 1

(* C12: a packet whose payload is 64 bytes or shorter decodes with both    *)
(* sides of the depth empty; the depth levels of a longer packet are those *)
(* held by the payload bytes after the first 64, and nothing else.         *)
C12_DepthBeyondHeaderOnly ==
    \A i \in 1..Len(binBuilt) :
        LET payload == binBuilt[i].payload
            depth   == binBuilt[i].ticker.Depth
        IN  /\ Len(payload) <= 64 => (depth.Buy = <<>> /\ depth.Sell = <<>>)
            /\ Len(payload) > 64 =>
                   FlatOrders(depth.Buy \o depth.Sell) =
                       ParseGroups(SubSeq(payload, 65, Len(payload)),
                                   (Len(payload) - 64) \div DepthGroupWidth)

\* a packet of exactly 64 bytes was decoded, all 16 fields, no depth
C12_Witness ==
    \E i \in 1..Len(binBuilt) :
        /\ Len(binBuilt[i].payload) = 64
        /\ Len(binBuilt[i].values) = 16
        /\ binBuilt[i].ticker.Depth = [Buy |-> <<>>, Sell |-> <<>>]

-----------------------------------------------------------------------------
(* Storage, in the specification's terms                                   *)

\* the bytes of a file, none if it does not exist
Contents(name) == IF name \in DOMAIN files THEN files[name] ELSE <<>>

\* the value of an 8-byte big-endian length
BigEndian8(b) ==
    LET F[i \in 0..8] == IF i = 0 THEN 0 ELSE F[i - 1] * 256 + b[i]
    IN  F[8]

\* a file cut into frames: the payloads of its complete frames, and
\* whether nothing is left over
RECURSIVE FramesIn(_)
FramesIn(bytes) ==
    IF bytes = <<>> THEN [payloads |-> <<>>, complete |-> TRUE, left |-> <<>>]
    ELSE IF Len(bytes) < 8
    THEN [payloads |-> <<>>, complete |-> FALSE, left |-> bytes]
    ELSE LET n == BigEndian8(bytes)
         IN  IF Len(bytes) - 8 < n
             THEN [payloads |-> <<>>, complete |-> FALSE, left |-> bytes]
             ELSE LET rest == FramesIn(SubSeq(bytes, n + 9, Len(bytes)))
                  IN  [payloads |-> <<SubSeq(bytes, 9, n + 8)>> \o rest.payloads,
                       complete |-> rest.complete, left |-> rest.left]

IsPrefix(a, b) == Len(a) <= Len(b) /\ SubSeq(b, 1, Len(a)) = a

\* the tick log of every date is a run of complete frames, one per append
\* of that date, in the order of the appends
LogIsFrames ==
    \A d \in Dates :
        LET cut == FramesIn(Contents(TickLogFile(d)))
        IN  /\ cut.complete
            /\ Len(cut.payloads) = Len(appended[d])
            /\ \A i \in 1..Len(appended[d]) :
                   cut.payloads[i] = compress(appended[d][i])

\* a step leaves the bytes a tick log already holds where they are
LogOnlyGrows ==
    \A d \in Dates :
        /\ TickLogFile(d) \in DOMAIN files => TickLogFile(d) \in DOMAIN files'
        /\ IsPrefix(Contents(TickLogFile(d)),
                    IF TickLogFile(d) \in DOMAIN files'
                    THEN files'[TickLogFile(d)] ELSE <<>>)

ReadValues == [i \in 1..Len(readFrames) |-> readFrames[i].val]

\* Read has gone through the log to its end and stopped of its own accord
ReadFinished == readPc = "exited" /\ readPanic = "exiting"

(* C14: what the engine appended to the tick log of a date is, message for *)
(* message and in the same order, what Read of that date obtains.  The     *)
(* engine writes market_data_equity_mcx_<date>, Read opens                 *)
(* market_data_<date>.  Stated for a date with at least one append.        *)
C14_ReadObtainsAppended ==
    (ReadFinished /\ readAppended # <<>>) => ReadValues = readAppended

\* the final frame of these bytes has its prefix and declares more payload
\* than the bytes that follow it
TruncatedFinalFrame(bytes) ==
    LET left == FramesIn(bytes).left
    IN  Len(left) > 8 /\ BigEndian8(left) > Len(left) - 8

\* the file is a run of complete frames that decompress
WellFormed(bytes) ==
    /\ FramesIn(bytes).complete
    /\ \A i \in 1..Len(FramesIn(bytes).payloads) :
           ~decompress(FramesIn(bytes).payloads[i]).err

(* C15: reading a tick log whose final frame declares more bytes than      *)
(* remain delivers the complete frames before it and ends the stream; it   *)
(* does not crash.  The code cuts b[8 : sizeOfPacket+8] and                *)
(* b[sizeOfPacket+8:] unchecked.  Stated with a sound instrument map.      *)
C15_TruncatedLogDoesNotCrash ==
    (/\ readPc # "idle"
     /\ MapFile(readDate) \in DOMAIN files
     /\ WellFormed(Contents(MapFile(readDate)))
     /\ TruncatedFinalFrame(Contents(ReadLogFile(readDate))))
        => readPanic # "slice bounds out of range"

(* C16: when the tick log of the date does not exist, Read stops with a    *)
(* not-found outcome; it does not start going through an empty input.      *)
C16_MissingLogStopsRead ==
    (readPc # "idle" /\ readB.err) => readPc # "frames"

(* C17: when a frame cannot be decompressed the read stops at that frame:  *)
(* no frame after it is cut out and decoded.                               *)
C17_CorruptFrameStopsRead ==
    \A i \in 1..Len(readFrames) : readFrames[i].err => i = Len(readFrames)

(* C18: Read delivers the ticks of the log, in order, and then returns to  *)
(* its caller.  The code ends every read in log.Panic("exiting").  Stated  *)
(* for a sound instrument map and a sound log of at least one frame.       *)
C18_ReadReturns ==
    (/\ readPc = "exited"
     /\ WellFormed(Contents(MapFile(readDate)))
     /\ MapFile(readDate) \in DOMAIN files
     /\ WellFormed(Contents(ReadLogFile(readDate)))
     /\ Contents(ReadLogFile(readDate)) # <<>>)
        => readPanic = "none"

(* C19: every date with an append to the tick log has an instrument-map    *)
(* snapshot of that date, and that snapshot is exactly one frame.  The     *)
(* snapshot is written at start-up only, under the date of the start.      *)
C19_SnapshotForEveryLogDate ==
    \A d \in Dates :
        appended[d] # <<>> =>
            /\ MapFile(d) \in DOMAIN files
            /\ FramesIn(files[MapFile(d)]).complete
            /\ Len(FramesIn(files[MapFile(d)]).payloads) = 1

-----------------------------------------------------------------------------
(* The tick cache, in the specification's terms                            *)

\* the fields of this ticker all come from the write numbered n
FromWrite(ticker, n) ==
    /\ n \in 1..Len(cacheArrived)
    /\ \A i \in 1..Len(TickerFields) :
           ticker[TickerFields[i]] = cacheArrived[n][TickerFields[i]]

(* C20: whatever the interleaving of the cache writer and the concurrent   *)
(* callers, the ticker a get returns is the ticker of one complete write:  *)
(* none of its fields comes from another write.                            *)
C20_GetReturnsOneWrite ==
    \A c \in Callers :
        getPc[c] = "got" => \E n \in 1..cacheWrites : FromWrite(getTicker[c], n)

\* two gets returned the two writes to the key, one each
C20_Witness ==
    \E c \in Callers :
        /\ getPc[c] = "got"
        /\ FromWrite(getTicker[c], 2)
        /\ getKey[c] = "NSE:A"
        /\ \E o \in Callers \ {c} : getPc[o] = "got" /\ FromWrite(getTicker[o], 1)

\* the token of the instrument the callers ask for
QueryToken ==
    BrokerInstrumentTokens[CHOOSE i \in 1..Len(BrokerInstrumentTokens) :
        BrokerInstrumentTokens[i].Key =
            SymbolKey(QueryExchange, QueryTradingSymbol)].Token

\* the tickers the consumer has put into the cache: all that arrived but
\* the one it still holds in front of the lock
Processed ==
    IF cachePc = "lock"
    THEN SubSeq(cacheArrived, 1, Len(cacheArrived) - 1)
    ELSE cacheArrived

\* the number of the last ticker of the instrument among these, 0 if none
LastOfInstrument(tickers) ==
    LET is == {i \in 1..Len(tickers) : tickers[i].Token = QueryToken}
    IN  IF is = {} THEN 0 ELSE CHOOSE i \in is : \A j \in is : j <= i

\* a get that returns in this step returns the last processed ticker of
\* the instrument, and nothing older than what a get returned before
GetReturnsLatest ==
    \A c \in Callers :
        (getPc[c] = "copy" /\ getPc'[c] = "got") =>
            /\ LastOfInstrument(Processed) > 0 =>
                   FromWrite(getTicker'[c], LastOfInstrument(Processed))
            /\ getTicker'[c].Depth >= getReturned

(* C21: cache writes are last-write-wins per symbol in arrival order: a    *)
(* get returns the last ticker of the instrument the consumer has          *)
(* processed, and no get returns an earlier ticker after a later one has   *)
(* been returned.                                                          *)
C21_LastWriteWins == [][GetReturnsLatest]_vars

\* two tickers of the instrument arrived and a get returned the second
C21_Witness ==
    /\ Len(cacheArrived) >= 2
    /\ cacheArrived[1].Token = QueryToken
    /\ cacheArrived[2].Token = QueryToken
    /\ getReturned = 2
    /\ \E c \in Callers : getPc[c] = "got" /\ FromWrite(getTicker[c], 2)

-----------------------------------------------------------------------------
(* addToBatchAndWait, in the specification's terms                         *)

\* the key waitFor was called with
WaitKey == SymbolKey(QueryExchange, waitSymbol)

\* waitFor has not returned
Waiting == waitPc \in {"subscribe", "poll", "sleep"}

\* waitFor polls only after it passed the token of the key to SubscribeFull
WaitSubscribesFirst ==
    waitPc \in {"poll", "sleep", "ok", "timeout"} =>
        InstrumentOf(QueryExchange, waitSymbol).Token \in waitSubscribed

\* the timeout is reported at 5 s and not before, success only for an
\* entry that is there
WaitResultsSound ==
    /\ waitPc = "timeout" => waitElapsed = maxWaitTime
    /\ waitPc = "ok" => (WaitKey \in DOMAIN TickSymbolMap
                         \/ waitSymbol \in DOMAIN TickSymbolMap)

\* waitFor returns
WaitTerminates == Waiting ~> ~Waiting

(* C22: waitFor for a known instrument subscribes its token and polls the  *)
(* cache every 100 ms; a poll that meets an entry of the key returns       *)
(* success, so waitFor does not go on waiting, nor time out, after a look  *)
(* at the cache that met the entry.                                        *)
C22_WaitReturnsOnEntry ==
    waitSeen => waitPc = "ok"

-----------------------------------------------------------------------------
(* Data collection and the trading hours                                   *)

\* the session windows on the venue clock
EquitySessionOpen(h, m) == NotBefore(h, m, 9, 15) /\ NotAfter(h, m, 15, 30)
CommoditySessionOpen(h, m) == NotBefore(h, m, 9, 0) /\ NotAfter(h, m, 23, 30)

\* the bytes of the tick log of date d in the directory fs
LogOf(fs, d) == IF TickLogFile(d) \in DOMAIN fs THEN fs[TickLogFile(d)] ELSE <<>>

\* the bytes of a message
BytesOf(message) == SubSeq(message.arr, 1, message.len)

\* this step takes a message from BinaryTickerChan
HandlesMessage == binHandled' = binHandled + 1

\* the message of this step is stored if a session window is open when it
\* arrives (and the append does not fail), and nothing is written if none is
StoredIffSessionOpen ==
    HandlesMessage =>
        IF /\ \/ EquitySessionOpen(Hour(now), Minute(now))
              \/ CommoditySessionOpen(Hour(now), Minute(now))
           /\ ~binAppendErr'
        THEN /\ appended'[today] = Append(appended[today], BytesOf(binMessage'))
             /\ Len(LogOf(files', today)) > Len(LogOf(files, today))
        ELSE /\ files' = files
             /\ appended' = appended

-----------------------------------------------------------------------------
(* The implied volatility, in the specification's terms                    *)

\* CalculateImpliedVolatility has returned
IVReturned == ivPc \in {"returned", "done"}

\* the search makes at most 100 iterations
IVIterationsBounded == ivI <= maxIterations

\* a volatility that is returned lies in the clamped range, and an error
\* comes with no volatility
IVResultInRange ==
    IVReturned =>
        IF ivResult.err = "none"
        THEN minVolatility <= ivResult.sigma /\ ivResult.sigma <= maxVolatility
        ELSE ivResult.sigma = 0

\* CalculateOptionAnalytics returns the empty output with the error of the
\* search
IVErrorGivesEmptyOutput ==
    (ivPc = "done" /\ ivResult.err # "none") =>
        ivOutput = [ImpliedVolatility |-> 0, Greeks |-> "zero",
                    err |-> ivResult.err]

(* C24: CalculateImpliedVolatility returns a volatility only when the      *)
(* Black-Scholes price at that volatility is within tolerance of the       *)
(* market price, and never a value the search has not converged at.        *)
C24_ReturnsOnlyConverged ==
    (IVReturned /\ ivResult.err = "none") =>
        Abs(blackScholes(ivTable, ivResult.sigma) - ivMarket) < tolerance

-----------------------------------------------------------------------------
(* The batch step, in the specification's terms                            *)

\* the tokens of the batch task t is at
BatchTokens(t) == Slice(allTokens, start[t], EndOf(start[t]))

\* the tokens of a list whose session is open at minute v of the day
RECURSIVE OpenTokens(_, _)
OpenTokens(tokens, v) ==
    IF tokens = <<>> THEN <<>>
    ELSE (IF SessionOpenAtMinute(Head(tokens), v) THEN <<Head(tokens)>> ELSE <<>>)
         \o OpenTokens(Tail(tokens), v)

\* the step is the Unsubscribe phase, the Subscribe phase, of task t
UnsubscribePhase(t) == pc[t] = "unsub" /\ pc'[t] # "unsub"
SubscribePhase(t) == pc[t] = "sub" /\ pc'[t] # "sub"

\* the token list a phase passed to Subscribe, none if it sent nothing
SubscribeSent(control) ==
    IF control.kind = "subscribe" THEN control.tokens ELSE <<>>

\* the step starts a pass of task t
PassStarts(t) == pc[t] = "outer" /\ pc'[t] = "inner"

\* every Subscribe carries the tokens of the batch whose session is open
\* on the clock of that batch step
SubscribesOpenNow ==
    \A t \in Tasks :
        SubscribePhase(t) =>
            SubscribeSent(lastControl') =
                OpenTokens(BatchTokens(t), NowTimeValue(now))

\* every Subscribe carries the tokens of the batch whose session was open
\* on the clock read at the start of the pass
SubscribesOpenAtPassStart ==
    \A t \in Tasks :
        /\ PassStarts(t) => nowTimeValue'[t] = NowTimeValue(now)
        /\ SubscribePhase(t) =>
               SubscribeSent(lastControl') =
                   OpenTokens(BatchTokens(t), nowTimeValue[t])

PreviousBatchTokens(t) ==
    LET chunks == Chunks(allTokens, BatchSize)
        k      == (start[t] \div BatchSize) + 1
    IN  chunks[IF k = 1 THEN Len(chunks) ELSE k - 1]

\* no token of the batch of task t has its session open, on the clock of
\* the pass or on the clock of the step
NoneActive(t) ==
    /\ BatchSize >= 1
    /\ InBatchStep(t)
    /\ OpenTokens(BatchTokens(t), nowTimeValue[t]) = <<>>
    /\ OpenTokens(BatchTokens(t), NowTimeValue(now)) = <<>>

\* a batch without an active token: the previous batch, if tokens of it
\* are subscribed, is unsubscribed; no Subscribe is sent; the Wait follows
EmptyBatchStep ==
    \A t \in Tasks :
        NoneActive(t) =>
            /\ (UnsubscribePhase(t)
                /\ Range(PreviousBatchTokens(t)) \cap subscribed # {}) =>
                   lastControl'.kind = "unsubscribe"
            /\ SubscribePhase(t) =>
                   (lastControl'.kind # "subscribe" /\ pc'[t] = "wait")

\* the same for the batches after the first of a pass
EmptyBatchStepInsidePass ==
    \A t \in Tasks :
        (NoneActive(t) /\ start[t] > 0) =>
            /\ (UnsubscribePhase(t)
                /\ Range(PreviousBatchTokens(t)) \cap subscribed # {}) =>
                   lastControl'.kind = "unsubscribe"
            /\ SubscribePhase(t) =>
                   (lastControl'.kind # "subscribe" /\ pc'[t] = "wait")

EmptyBatchInsidePass == [][EmptyBatchStepInsidePass]_vars

(* C26: when no token of the current batch is active no Subscribe is sent  *)
(* for it, but the Unsubscribe of the previous batch and the Wait still    *)
(* take place.                                                             *)
C26_EmptyBatchStillUnsubscribes == [][EmptyBatchStep]_vars

\* a control call of task t fails in this step
ControlFails(t) ==
    /\ UnsubscribePhase(t) \/ SubscribePhase(t)
    /\ lastControl'.kind # "none"
    /\ lastControl'.err

\* after the failure the task is at the next phase of the step, and the
\* engine runs
FailureDoesNotHalt ==
    \A t \in Tasks :
        ControlFails(t) =>
            /\ pc'[t] = IF pc[t] = "unsub" THEN "sub" ELSE "wait"
            /\ ~crashed'
            /\ writePc' = writePc
            /\ \A u \in Tasks \ {t} : pc'[u] = pc[u]

(* C27: a failed Subscribe or Unsubscribe never halts the rotation: the    *)
(* task goes on to the next phase of the step, from which it proceeds to   *)
(* the next batch, and the engine keeps running.                           *)
C27_FailureDoesNotHalt == [][FailureDoesNotHalt]_vars

\* the Unsubscribe of a batch failed and its task is at the Subscribe of
\* the next batch
C27_Witness ==
    \E t \in Tasks :
        /\ pc[t] = "sub"
        /\ start[t] > 0
        /\ lastControl.kind = "unsubscribe"
        /\ lastControl.err
        /\ ~crashed
        /\ writePc = "serve"

\* a task that waits after a failed Subscribe comes to its next batch step,
\* unless the context is cancelled
FailureThenNextBatch ==
    \A t \in Tasks :
        (pc[t] = "wait" /\ lastControl.kind = "subscribe" /\ lastControl.err)
            ~> (pc[t] \in {"unsub", "done"})

\* every Unsubscribe carries the tokens the preceding Subscribe sent;
\* stated for a valid configuration
UnsubscribesWhatWasSubscribed ==
    \A t \in Tasks :
        (/\ ConfigValid /\ BatchSize >= 1
         /\ UnsubscribePhase(t) /\ lastControl'.kind = "unsubscribe") =>
            /\ lastControl.kind = "subscribe"
            /\ lastControl'.tokens = lastControl.tokens

(* C28: at each batch transition the token list passed to Unsubscribe is   *)
(* the list the preceding Subscribe sent, the active tokens of the         *)
(* previous batch; a token that was never subscribed is not unsubscribed.  *)
C28_UnsubscribesActiveOnly == [][UnsubscribesWhatWasSubscribed]_vars

-----------------------------------------------------------------------------
(* The end of the tasks after the cancellation                             *)

\* no rotation task is running
RotationTasksEnded == \A t \in Tasks : pc[t] \in {"none", "done"}

\* both consumers have left their loops
ConsumersEnded == binPc = "done" /\ cachePc = "done"

\* after the cancellation every rotation task that runs comes to its end,
\* with any batch size and any interval the environment gives
RotationEndsAfterCancel ==
    (cancelled /\ writePc # "start") ~> (RotationTasksEnded \/ crashed)

\* a consumer leaves its loop only after the close of the channels
ConsumerEndsOnlyOnClose ==
    (binPc = "done" \/ cachePc = "done") => chanClosed

(* C29: once the cancellation has been raised every long-running task of   *)
(* the engine eventually ends: each rotation task, the tick-cache consumer *)
(* and the binary-message consumer.                                        *)
C29_TasksEndAfterCancel ==
    (ConfigValid /\ cancelled /\ writePc # "start") ~>
        ((RotationTasksEnded /\ ConsumersEnded) \/ crashed)

-----------------------------------------------------------------------------
(* Packets with a field count outside the five variants                    *)

\* the field counts of the five variants
KnownFieldCounts == {2, 7, 8, 11, 16}

\* the i-th packet of the message in hand has a field count of no variant
UnknownFieldCount(i) == Len(binBuilt[i].values) \notin KnownFieldCounts

\* the i-th packet went through the directory lookup and json.Marshal
Enriched(i) == i <= Len(binProduced)

\* the i-th packet is the one the consumer panicked on
PanickedOn(i) ==
    binPanic # "none" /\ i = Len(binBuilt) /\ Len(binProduced) < Len(binBuilt)

(* C30: a packet whose field count is none of 2, 7, 8, 11 and 16 is        *)
(* skipped: no tick is enriched and produced for it, the consumer does not *)
(* fail on it, and the packets after it are decoded.                       *)
C30_UnknownFieldCountSkipped ==
    \A i \in 1..Len(binBuilt) :
        UnknownFieldCount(i) => (~Enriched(i) /\ ~PanickedOn(i))

-----------------------------------------------------------------------------
(* The two sides of the depth ladder                                       *)

\* the groups of the ladder of the i-th packet, in wire order
LadderGroups(i) ==
    LET payload == binBuilt[i].payload
    IN  IF Len(payload) > 64
        THEN (Len(payload) - 64) \div DepthGroupWidth
        ELSE 0

\* the first n groups of the ladder of the i-th packet, as wire values
WireGroups(i, from, to) ==
    LET payload == binBuilt[i].payload
        all == ParseGroups(SubSeq(payload, 65, Len(payload)), LadderGroups(i))
    IN  SubSeq(all, 3 * from + 1, 3 * to)

(* C31: of a depth ladder of G groups the first G \div 2, in wire order,   *)
(* are the buy side and the others, in wire order, the sell side; the      *)
(* decoder does not fail on the ladder, whether G is odd or even.          *)
C31_LadderHalves ==
    \A i \in 1..Len(binBuilt) :
        LET G     == LadderGroups(i)
            depth == binBuilt[i].ticker.Depth
        IN  G >= 1 =>
              /\ Len(depth.Buy) = G \div 2
              /\ Len(depth.Sell) = G - (G \div 2)
              /\ FlatOrders(depth.Buy) = WireGroups(i, 0, G \div 2)
              /\ FlatOrders(depth.Sell) = WireGroups(i, G \div 2, G)
              /\ ~PanickedOn(i)

\* a ladder of three groups was decoded: one buy order, two sell orders
C31_Witness ==
    \E i \in 1..Len(binBuilt) :
        /\ LadderGroups(i) = 3
        /\ Len(binBuilt[i].ticker.Depth.Buy) = 1
        /\ Len(binBuilt[i].ticker.Depth.Sell) = 2
        /\ i <= Len(binProduced)

-----------------------------------------------------------------------------
(* The two keys of a cached tick                                           *)

\* the tick is stored under a bare symbol and under exchange:symbol
HasBothKeys(ticker) ==
    ticker.TradingSymbol # "" /\ ticker.Token \in DOMAIN TokenSymbolMap

\* a reader may look at the cache: it holds the read lock, or nobody
\* holds the write lock
Readable ==
    TickSymbolMapMutex.readers # {} \/ ~TickSymbolMapMutex.writer

\* the cache holds, under this key, the n-th ticker that arrived
HoldsWrite(key, n) ==
    key \in DOMAIN TickSymbolMap /\ FromWrite(TickSymbolMap[key], n)

(* C32: once the consumer has processed a tick with a known token and a    *)
(* non-empty trading symbol, the cache holds that tick under exchange:symbol *)
(* and under the bare symbol; whenever a reader may look, the two keys     *)
(* hold the same, last processed tick, never one new and one old.          *)
C32_BothKeysUpdatedTogether ==
    LET n == Len(Processed)
    IN  (Readable /\ n >= 1 /\ HasBothKeys(Processed[n])) =>
            /\ HoldsWrite(Processed[n].TradingSymbol, n)
            /\ HoldsWrite(TokenSymbolMap[Processed[n].Token], n)

\* a reader is inside its lookup after the second tick of the instrument
\* replaced the first under both keys
C32_Witness ==
    /\ Len(Processed) = 2
    /\ HasBothKeys(Processed[1])
    /\ HasBothKeys(Processed[2])
    /\ \E c \in Callers : getPc[c] = "lookup"
    /\ HoldsWrite("A", 2)
    /\ HoldsWrite("NSE:A", 2)

-----------------------------------------------------------------------------
(* A failed append to the tick log                                         *)

\* a session window is open at the clock's time
SomeSessionOpen ==
    \/ EquitySessionOpen(Hour(now), Minute(now))
    \/ CommoditySessionOpen(Hour(now), Minute(now))

\* the message of this step went through the decoder: the consumer holds
\* what the decoder gives for it and failed only if the decoder did
DecodesMessage ==
    /\ binBuilt' = Decode(binMessage').built
    /\ binProduced' = Decode(binMessage').produced
    /\ binPanic' = Decode(binMessage').panic
    /\ crashed' = (Decode(binMessage').panic # "none")
    /\ binPc' = "recv"

\* a step that handles a message inside a session either puts it into the
\* tick log or has the error of the append in hand; with the error in hand
\* it still decodes the message; and after a failed append the next
\* message is appended, when the append works, and decoded
AppendFailureDoesNotStop ==
    HandlesMessage =>
        /\ (SomeSessionOpen /\ LogOf(files', today) = LogOf(files, today)) =>
               binAppendErr'
        /\ binAppendErr' => DecodesMessage
        /\ binAppendErr =>
               /\ DecodesMessage
               /\ (SomeSessionOpen /\ ~binAppendErr') =>
                      appended'[today] =
                          Append(appended[today], BytesOf(binMessage'))

(* C33: a failed append to the tick log comes back from the write path as  *)
(* an error and stops neither the decoding of the message whose append     *)
(* failed nor the appending and decoding of the messages after it.         *)
C33_AppendFailureDoesNotStop == [][AppendFailureDoesNotStop]_vars

\* the append of the first message failed; the second message is in the
\* tick log and was decoded
C33_Witness ==
    /\ binHandled = 2
    /\ SomeSessionOpen
    /\ ~binAppendErr
    /\ Len(appended[today]) = 1
    /\ appended[today][1] = BytesOf(binMessage)
    /\ binBuilt # <<>>
    /\ binPanic = "none"

-----------------------------------------------------------------------------
(* Rotation tasks of one connection                                        *)

\* the rotation task was started and has not returned
Running(t) == pc[t] \notin {"none", "done"}

\* two rotation tasks are inside a batch step at once
TwoTasksRotate ==
    \E t, u \in DOMAIN pc : t # u /\ InBatchStep(t) /\ InBatchStep(u)

(* C34: at most one rotation task runs at any time; after a second connect *)
(* event there are not two tasks that send Subscribe and Unsubscribe and   *)
(* share the isSubscribed flag.                                            *)
C34_OneRotationTask ==
    \A t, u \in DOMAIN pc : (Running(t) /\ Running(u)) => t = u

-----------------------------------------------------------------------------
(* Subscriptions made on demand by the quote queries                       *)

\* the tokens the rotation itself has subscribed lie in one batch
RotationWithinOneBatch ==
    \E k \in 1..Len(Chunks(allTokens, BatchSize)) :
        (subscribed \ waitSubscribed)
            \subseteq Range(Chunks(allTokens, BatchSize)[k])

\* addToBatchAndWait has returned and the token it subscribed is still
\* subscribed outside the batch of the rotation
OnDemandLeftBehind ==
    /\ waitPc \in {"ok", "timeout"}
    /\ \E tok \in waitSubscribed \cap subscribed :
           \E t \in Tasks : InBatchStep(t) /\ tok \notin Range(BatchTokens(t))

(* C35: with the tokens that quote queries subscribe on demand counted in, *)
(* the tokens subscribed on the connection are never more than one batch   *)
(* holds; stated for the states in which the rotation's own subscriptions  *)
(* lie within one batch.                                                   *)
C35_OnDemandWithinBatch ==
    (ConfigValid /\ BatchSize >= 1 /\ RotationWithinOneBatch) =>
        Cardinality(subscribed) <= BatchSize

-----------------------------------------------------------------------------
(* Packets decoded from one message                                        *)

\* the bytes the packets in built take on the wire: two of the length
\* prefix and the payload, for each
RECURSIVE WireBytes(_)
WireBytes(built) ==
    IF built = <<>> THEN 0
    ELSE 2 + Len(Head(built).payload) + WireBytes(Tail(built))

\* the same packet was decoded for two counts of the message
DecodedAgain ==
    \E i \in 1..Len(binBuilt) :
        /\ i + 1 <= Len(binProduced)
        /\ binBuilt[i + 1].payload = binBuilt[i].payload
        /\ WireBytes(binBuilt) > binMessage.len - 2

(* C36: every packet of a message is decoded at most once: the packets     *)
(* decoded from a message are distinct stretches of it, so their bytes on  *)
(* the wire fit into the message after its packet count, also when the     *)
(* declared count is above the packets present.  Stated for a message     *)
(* whose buffer ends with the message.                                     *)
C36_PacketDecodedOnce ==
    (binMessage.len >= 2 /\ Cap(binMessage) = binMessage.len) =>
        WireBytes(binBuilt) <= binMessage.len - 2

-----------------------------------------------------------------------------
(* The end of a packet in 16-bit arithmetic                                *)

\* the declared length of the first packet of the message in hand
FirstPacketSize == Uint16(SubSeq(binMessage.arr, 3, 4))

\* a message was handled whose first packet declares a length that, with
\* the two bytes of the prefix, passes 65535
DeclaresLongestPacket ==
    /\ binMessage.len >= 4
    /\ FirstPacketSize >= 65534
    /\ binPanic = "slice bounds out of range"

(* C37: for every declared packet length L of 0..65535 the end of the      *)
(* packet slice, which is also the offset the decoder advances by, is the  *)
(* integer L + 2: the sum does not wrap around modulo 2^16.                *)
C37_PacketEndDoesNotWrap ==
    binMessage.len >= 4 => PacketEnd(FirstPacketSize) = FirstPacketSize + 2

-----------------------------------------------------------------------------
(* The instrument of the tick a lookup returns                             *)

\* the ticker the get of caller c returned, as it arrived
ReturnedWrite(c) == cacheArrived[getTicker[c].Depth]

\* a get returned the tick of the instrument of the other exchange
ReturnsOtherExchange ==
    \E c \in Callers :
        /\ getPc[c] = "got"
        /\ ReturnedWrite(c).Token = SameSymbolToken
        /\ getKey[c] = QueryTradingSymbol

(* C38: a lookup for (exchange, symbol) returns only a tick of the         *)
(* instrument exchange:symbol, never the tick of the instrument that has   *)
(* the same trading symbol on another exchange, whatever the order of the  *)
(* cached ticks.                                                           *)
C38_LookupReturnsOwnInstrument ==
    \A c \in Callers :
        (getPc[c] = "got"
         /\ ReturnedWrite(c).Token \in DOMAIN TokenSymbolMap) =>
            TokenSymbolMap[ReturnedWrite(c).Token] =
                SymbolKey(QueryExchange, QueryTradingSymbol)

-----------------------------------------------------------------------------
(* The candles of a response                                               *)

\* GetHistoricalMinutelyData returned candles and no error
HistReturned == histPc = "done" /\ histErr = "none"

\* an error comes with no candles
HistErrorGivesNoCandles ==
    (histPc = "done" /\ histErr # "none") => histCandles = <<>>

\* every row of the response is among the candles, in response order,
\* unless it has no field
HistRowsInOrder ==
    HistReturned =>
        /\ \A k \in 1..Len(histCandles) - 1 : histCandles[k] <= histCandles[k + 1]
        /\ \A i \in 1..Len(histResp.rows) :
               histResp.rows[i].n >= 1 => i \in Range(histCandles)

\* a response of two rows with open interest was turned into candles
HistTwoFullRows ==
    /\ HistReturned
    /\ Len(histResp.rows) = 2
    /\ histResp.rows[1].n = 7
    /\ histResp.rows[2].n = 7
    /\ Len(histCandles) = 14

(* C39: a successful response gives exactly one Candle per candle row, in  *)
(* response order, whatever the number of fields of a row: the result is   *)
(* as long as the response has rows.                                       *)
C39_OneCandlePerRow ==
    HistReturned =>
        /\ Len(histCandles) = Len(histResp.rows)
        /\ \A k \in 1..Len(histCandles) : histCandles[k] = k

====
